---- MODULE Spec2Model ----
(***************************************************************************)
(* A model of the CLA cognitive core (ConceptGraph, DualProcessingEngine,  *)
(* SafetyGate, CognitiveLayer) and of the chat shell's use of it.          *)
(*                                                                         *)
(* Numbers.  The code's floats are modelled in fixed point: a float x is    *)
(* the integer x * Scale, and a product is floored to 1/Scale after every   *)
(* multiplication.  Comparisons with the code's thresholds are made on the  *)
(* fixed-point values.                                                      *)
(*                                                                         *)
(* Strings are TLA+ strings; lower(), substring search and concatenation    *)
(* are computed character by character.                                     *)
(***************************************************************************)
EXTENDS Integers, Sequences, FiniteSets, TLC

VARIABLES
    graph,              \* ConceptGraph.concepts: [keys: dict order, at: id -> Concept]
    shared_grounding,   \* SafetyGate.shared_grounding
    violation_history,  \* SafetyGate.violation_history
    awareness,          \* CognitiveAwareness: meta_knowledge, current_state, counters
    interaction_history, \* CognitiveLayer.interaction_history
    decision_history,   \* MetaController.decision_history
    uuids,              \* number of concept ids drawn from uuid4 so far
    call,               \* the last call: operation, arguments, result or exception
    steps,              \* number of calls made so far
    shell               \* CLATalkie: its GlobalState and the files it writes

vars == <<graph, shared_grounding, violation_history, awareness, interaction_history, decision_history, uuids, call, steps, shell>>

-----------------------------------------------------------------------------
(* Fixed point *)

Scale == 10 * 10 * 10

Min(a, b) == IF a <= b THEN a ELSE b
Max(a, b) == IF a >= b THEN a ELSE b

\* a * b for two fixed-point numbers
Mul(a, b) == (a * b) \div Scale

\* base ** k for a fixed-point base and an integer k >= 1
RECURSIVE Pow(_, _)
Pow(base, k) == IF k <= 1 THEN base ELSE Mul(Pow(base, k - 1), base)

\* floor of the square root of a natural number
Isqrt(n) == CHOOSE k \in 0..n : k * k <= n /\ (k + 1) * (k + 1) > n

\* the float nan (0/0 of numpy): every comparison with it is false
NaN == 0 - (Scale * Scale)

-----------------------------------------------------------------------------
(* Strings *)

Lower1(c) ==
    CASE c = "A" -> "a" [] c = "B" -> "b" [] c = "C" -> "c" [] c = "D" -> "d"
      [] c = "E" -> "e" [] c = "F" -> "f" [] c = "G" -> "g" [] c = "H" -> "h"
      [] c = "I" -> "i" [] c = "J" -> "j" [] c = "K" -> "k" [] c = "L" -> "l"
      [] c = "M" -> "m" [] c = "N" -> "n" [] c = "O" -> "o" [] c = "P" -> "p"
      [] c = "Q" -> "q" [] c = "R" -> "r" [] c = "S" -> "s" [] c = "T" -> "t"
      [] c = "U" -> "u" [] c = "V" -> "v" [] c = "W" -> "w" [] c = "X" -> "x"
      [] c = "Y" -> "y" [] c = "Z" -> "z" [] OTHER -> c

\* str.lower()
RECURSIVE Lower(_)
Lower(s) ==
    IF Len(s) = 0 THEN ""
    ELSE Lower1(SubSeq(s, 1, 1)) \o Lower(SubSeq(s, 2, Len(s)))

\* keyword in s
Contains(s, keyword) ==
    \E i \in 1..(Len(s) - Len(keyword) + 1) :
        SubSeq(s, i, i + Len(keyword) - 1) = keyword

\* any(keyword in s for keyword in keywords)
ContainsAny(s, keywords) == \E k \in keywords : Contains(s, k)

-----------------------------------------------------------------------------
(* Vectors (numpy arrays of integers); None is the empty tuple *)

NoEmbedding == << >>

RECURSIVE Dot(_, _)
Dot(u, v) ==
    IF Len(u) = 0 \/ Len(v) = 0 THEN 0
    ELSE u[1] * v[1] + Dot(Tail(u), Tail(v))

Norm2(u) == Dot(u, u)

\* np.dot(u, v) / (norm(u) * norm(v)), nan when a norm is 0
CosineSimilarity(u, v) ==
    IF Norm2(u) = 0 \/ Norm2(v) = 0 THEN NaN
    ELSE (Dot(u, v) * Scale) \div Isqrt(Norm2(u) * Norm2(v))

-----------------------------------------------------------------------------
(* Property values: a str, a list of str, a number or a bool *)

StrV(s)  == [kind |-> "str",  v |-> s]
ListV(l) == [kind |-> "list", v |-> l]
NumV(n)  == [kind |-> "num",  v |-> n]
BoolV(b) == [kind |-> "bool", v |-> b]

NoProperties == [k \in {} |-> StrV("")]

\* properties.get("type", "unknown")
PropType(props) ==
    IF "type" \in DOMAIN props /\ props["type"].kind = "str"
    THEN props["type"].v ELSE "unknown"

-----------------------------------------------------------------------------
(* Concept *)

NoCategory == "<None>"
NoContext == "<None>"
NoLinks == [k \in {} |-> [strength |-> 0, rel_type |-> "generic"]]

\* the dataclass with its defaults
Concept(name, embedding, properties, activation, weight, depth, valence, is_incubating, duality_category) ==
    [ name             |-> name,
      embedding        |-> embedding,
      properties       |-> properties,
      activation       |-> activation,
      weight           |-> weight,
      depth            |-> depth,
      valence          |-> valence,
      links            |-> NoLinks,
      is_incubating    |-> is_incubating,
      parent_concepts  |-> << >>,
      is_emergent      |-> FALSE,
      emergence_context |-> NoContext,
      duality_category |-> duality_category ]

-----------------------------------------------------------------------------
(* ConceptGraph *)

\* keys, at: the concepts dict; edges: the edges of the networkx DiGraph, whose
\* nodes are the keys
EmptyGraph == [keys |-> << >>, at |-> [k \in {} |-> 0], edges |-> {}, current_era |-> "genesis"]

Ids(g) == DOMAIN g.at

SeqToSet(s) == {s[i] : i \in DOMAIN s}

\* the subsequence of s whose elements satisfy Keep
RECURSIVE FilterSeq(_, _)
FilterSeq(s, keep) ==
    IF Len(s) = 0 THEN << >>
    ELSE IF s[1] \in keep THEN <<s[1]>> \o FilterSeq(Tail(s), keep)
    ELSE FilterSeq(Tail(s), keep)

add_concept(g, id, c) ==
    [ g EXCEPT !.keys = IF id \in Ids(g) THEN g.keys ELSE Append(g.keys, id),
               !.at   = [k \in Ids(g) \cup {id} |-> IF k = id THEN c ELSE g.at[k]] ]

remove_concept(g, id) ==
    [ g EXCEPT !.keys = FilterSeq(g.keys, Ids(g) \ {id}),
               !.at   = [k \in Ids(g) \ {id} |-> g.at[k]],
               !.edges = {e \in g.edges : e[1] # id /\ e[2] # id} ]

get_concept(g, id) == g.at[id]

link_to(c, other, strength, rel_type) ==
    [c EXCEPT !.links =
        [k \in DOMAIN c.links \cup {other} |->
            IF k = other THEN [strength |-> strength, rel_type |-> rel_type]
            ELSE c.links[k]]]

link_concepts(g, a, b, strength, rel_type) ==
    IF a \in Ids(g) /\ b \in Ids(g)
    THEN [g EXCEPT !.at[a] = link_to(g.at[a], b, strength, rel_type), !.edges = g.edges \cup {<<a, b>>}]
    ELSE g

\* add_concept for each concept of cs, under the ids of ids
RECURSIVE AddAll(_, _, _)
AddAll(g, ids, cs) ==
    IF Len(cs) = 0 THEN g
    ELSE AddAll(add_concept(g, ids[1], cs[1]), Tail(ids), Tail(cs))

\* link_concepts for each <<from, to, strength>> of ls
RECURSIVE LinkAll(_, _)
LinkAll(g, ls) ==
    IF Len(ls) = 0 THEN g
    ELSE LinkAll(link_concepts(g, ls[1][1], ls[1][2], ls[1][3], "generic"), Tail(ls))

\* the activation threshold below which a concept does not propagate
Epsilon == 10

SetMax(S) == CHOOSE x \in S : \A y \in S : y <= x

\* activations.get(n, 0.0): the defaultdict(float) of the traversal
ActOf(acts, n) == IF n \in DOMAIN acts THEN acts[n] ELSE 0

\* a round that adds the proposals to the value a concept has
SpreadRound_Sum(g, acts, current_decay) ==
    LET from == {m \in DOMAIN acts : acts[m] > Epsilon /\ m \in Ids(g)}
        to   == UNION {DOMAIN g.at[m].links : m \in from}
        RECURSIVE Total(_, _)
        Total(n, S) ==
            IF S = {} THEN 0
            ELSE LET m == CHOOSE x \in S : TRUE
                 IN  Mul(Mul(acts[m], g.at[m].links[n].strength), current_decay) + Total(n, S \ {m})
    IN  [n \in DOMAIN acts \cup to |->
            ActOf(acts, n) + Total(n, {x \in from : n \in DOMAIN g.at[x].links})]

\* one round of the traversal: new_activations from activations
SpreadRound(g, acts, current_decay) ==
    LET from == {m \in DOMAIN acts : acts[m] > Epsilon /\ m \in Ids(g)}
        to   == UNION {DOMAIN g.at[m].links : m \in from}
        proposed(n) ==
            { Mul(Mul(acts[m], g.at[m].links[n].strength), current_decay) :
                m \in {x \in from : n \in DOMAIN g.at[x].links} }
    IN  [n \in DOMAIN acts \cup to |->
            IF n \in to THEN Max(ActOf(acts, n), SetMax(proposed(n)))
            ELSE acts[n]]

\* a traversal that runs one round more than max_hops
RECURSIVE SpreadRounds_ExtraRound(_, _, _, _, _)
SpreadRounds_ExtraRound(g, acts, decay_factor, hop, max_hops) ==
    IF hop > max_hops THEN acts
    ELSE SpreadRounds_ExtraRound(g, SpreadRound(g, acts, Pow(decay_factor, hop + 1)), decay_factor, hop + 1, max_hops)

\* the activations after rounds hop..max_hops-1 (hop counts from 0)
RECURSIVE SpreadRounds(_, _, _, _, _)
SpreadRounds(g, acts, decay_factor, hop, max_hops) ==
    IF hop >= max_hops THEN acts
    ELSE SpreadRounds(g, SpreadRound(g, acts, Pow(decay_factor, hop + 1)), decay_factor, hop + 1, max_hops)

\* the returned dict of spreading_activation
SpreadActivations(g, sources, initial_activation, decay_factor, max_hops) ==
    SpreadRounds(g, [n \in sources |-> initial_activation], decay_factor, 0, max_hops)

\* activations after each round: [0] the sources, [r] new_activations of round r
SpreadTrace(g, sources, initial_activation, decay_factor, max_hops) ==
    [r \in 0..max_hops |-> SpreadRounds(g, [n \in sources |-> initial_activation], decay_factor, 0, r)]

\* the graph after spreading_activation
spreading_activation(g, sources, initial_activation, decay_factor, max_hops) ==
    LET acts == SpreadActivations(g, sources, initial_activation, decay_factor, max_hops)
    IN  [g EXCEPT !.at =
            [k \in Ids(g) |->
                IF k \in DOMAIN acts THEN [g.at[k] EXCEPT !.activation = acts[k]]
                ELSE g.at[k]]]

DefaultThreshold == 300

\* the ids, in dict order, of the concepts with activation >= threshold
get_active_concepts(g, threshold) ==
    FilterSeq(g.keys, {k \in Ids(g) : g.at[k].activation >= threshold})

-----------------------------------------------------------------------------
(* decay_all: the gardener *)

ProtectedTypes == {"dna", "core_value", "emotion"}
ProtectedWeight == 800
IncubationWeight == 300
IncubationStep == 20
IncubationLinks == 2
BridgeWeight == 150
ActivationDecay == 600
ForgetThreshold == 120

IsBridge(g, id) ==
    \E t \in DOMAIN g.at[id].links : t \in Ids(g) /\ g.at[t].weight > ProtectedWeight

\* a cascade whose first rule protects by type only
DecayRule_TypesOnly(g, id) ==
    LET c == g.at[id]
    IN  IF PropType(c.properties) \in ProtectedTypes
            THEN "protected"
        ELSE IF (Cardinality(DOMAIN c.links) >= IncubationLinks \/ c.is_incubating) /\ c.weight < IncubationWeight
            THEN "incubation"
        ELSE IF IsBridge(g, id) /\ c.weight > BridgeWeight
            THEN "bridge"
        ELSE "standard"

\* a cascade that tests the bridge rule before the incubation rule
DecayRule_BridgeFirst(g, id) ==
    LET c == g.at[id]
    IN  IF PropType(c.properties) \in ProtectedTypes \/ c.weight > ProtectedWeight
            THEN "protected"
        ELSE IF IsBridge(g, id) /\ c.weight > BridgeWeight
            THEN "bridge"
        ELSE IF (Cardinality(DOMAIN c.links) >= IncubationLinks \/ c.is_incubating) /\ c.weight < IncubationWeight
            THEN "incubation"
        ELSE "standard"

\* which rule of the cascade applies to the concept (the first that matches)
DecayRule(g, id) ==
    LET c == g.at[id]
    IN  IF PropType(c.properties) \in ProtectedTypes \/ c.weight > ProtectedWeight
            THEN "protected"
        ELSE IF (Cardinality(DOMAIN c.links) >= IncubationLinks \/ c.is_incubating) /\ c.weight < IncubationWeight
            THEN "incubation"
        ELSE IF IsBridge(g, id) /\ c.weight > BridgeWeight
            THEN "bridge"
        ELSE "standard"

\* a retention that adds the depth unscaled
EffectiveDecay_Sum(rate, depth) == rate + depth

\* a retention that ignores the depth
EffectiveDecay_RateOnly(rate, depth) == rate

EffectiveDecay(rate, depth) == rate + Mul(Scale - rate, depth)

\* the concept after its step of the pass
DecayConcept(g, id, rate) ==
    LET c == g.at[id]
        rule == DecayRule(g, id)
        eff == EffectiveDecay(rate, c.depth)
    IN  IF rule = "incubation"
            THEN [c EXCEPT !.weight = Min(IncubationWeight, c.weight + IncubationStep), !.is_incubating = TRUE]
        ELSE IF rule = "standard"
            THEN [c EXCEPT !.weight = Mul(c.weight, eff), !.activation = Mul(c.activation, Mul(eff, ActivationDecay))]
        ELSE c

\* a queue that takes every concept left under the threshold, whatever its rule
DecayRemoved_AnyRule(g, rate) ==
    FilterSeq(g.keys, {k \in Ids(g) : DecayConcept(g, k, rate).weight < ForgetThreshold})

\* to_remove: the ids queued for removal, in dict order
DecayRemoved(g, rate) ==
    FilterSeq(g.keys, {k \in Ids(g) : DecayRule(g, k) = "standard" /\ DecayConcept(g, k, rate).weight < ForgetThreshold})

\* the graph after decay_all
decay_all(g, rate) ==
    LET gone == SeqToSet(DecayRemoved(g, rate))
    IN  [ g EXCEPT !.keys = FilterSeq(g.keys, Ids(g) \ gone),
                   !.at   = [k \in Ids(g) \ gone |-> DecayConcept(g, k, rate)],
                   !.edges = {e \in g.edges : e[1] \notin gone /\ e[2] \notin gone} ]

EraActivation == 50
EraWeight == 200

\* the ids evolve_era takes out, in dict order
EraRemoved(g) ==
    FilterSeq(g.keys, {k \in Ids(g) : g.at[k].activation < EraActivation /\ g.at[k].weight < EraWeight})

\* the graph after evolve_era
evolve_era(g, new_era_name) ==
    LET gone == SeqToSet(EraRemoved(g))
    IN  [ g EXCEPT !.current_era = new_era_name,
                   !.keys = FilterSeq(g.keys, Ids(g) \ gone),
                   !.at   = [k \in Ids(g) \ gone |-> g.at[k]],
                   !.edges = {e \in g.edges : e[1] \notin gone /\ e[2] \notin gone} ]

-----------------------------------------------------------------------------
(* find_dualities *)

DefaultOpposition == 700
DefaultMinOpposition == 600

\* a category test that accepts every category
Truthy_Always(category) == TRUE

\* bool(duality_category): neither None nor the empty string
Truthy(category) == category # NoCategory /\ category # ""

\* DualityPair.calculate_opposition
calculate_opposition(a, b) ==
    IF a.embedding # NoEmbedding /\ b.embedding # NoEmbedding
    THEN LET sim == CosineSimilarity(a.embedding, b.embedding)
         IN  IF sim = NaN THEN NaN ELSE Scale - sim
    ELSE DefaultOpposition

\* a friction that takes the complement of the second pole's activation
calculate_friction_Complement(a, b, opposition) == Mul(Mul(a.activation, Scale - b.activation), opposition)

\* DualityPair.calculate_friction
calculate_friction(a, b, opposition) == Mul(Mul(a.activation, b.activation), opposition)

DualityPair(g, ia, ib) ==
    LET a == g.at[ia]
        b == g.at[ib]
        opp == calculate_opposition(a, b)
    IN  [ pole_a |-> ia, pole_b |-> ib, category |-> a.duality_category,
          opposition |-> opp, friction |-> calculate_friction(a, b, opp) ]

\* the pairs (active[i], active[j]), j > i, that are kept, in enumeration order
RECURSIVE PairsFrom(_, _, _, _, _)
PairsFrom(g, active, i, j, min_opposition) ==
    IF i > Len(active) THEN << >>
    ELSE IF j > Len(active) THEN PairsFrom(g, active, i + 1, i + 2, min_opposition)
    ELSE LET a == g.at[active[i]]
             b == g.at[active[j]]
             p == DualityPair(g, active[i], active[j])
             rest == PairsFrom(g, active, i, j + 1, min_opposition)
         IN  IF Truthy(a.duality_category) /\ a.duality_category = b.duality_category
                /\ p.opposition # NaN /\ p.opposition >= min_opposition
             THEN <<p>> \o rest
             ELSE rest

\* insert p into a sequence sorted by friction, descending, after its equals
RECURSIVE InsertByFriction(_, _)
InsertByFriction(sorted, p) ==
    IF Len(sorted) = 0 THEN <<p>>
    ELSE IF sorted[1].friction >= p.friction THEN <<sorted[1]>> \o InsertByFriction(Tail(sorted), p)
    ELSE <<p>> \o sorted

\* list.sort(key=friction, reverse=True): stable
RECURSIVE SortByFriction(_)
SortByFriction(s) ==
    IF Len(s) = 0 THEN << >>
    ELSE InsertByFriction(SortByFriction(SubSeq(s, 1, Len(s) - 1)), s[Len(s)])

find_dualities(g, active, min_opposition) ==
    SortByFriction(PairsFrom(g, active, 1, 2, min_opposition))

-----------------------------------------------------------------------------
(* SafetyGate *)

NoHarm == "No harm to humans"
HumanInTheLoop == "Human-in-the-loop for critical actions"
GatedSelfUpdates == "Gated self-updates only when shared_grounding >= 0.8"

SafetyViolation(invariant, severity, description) ==
    [invariant |-> invariant, severity |-> severity, description |-> description]

\* None where a SafetyViolation is optional
NoViolation == SafetyViolation("<None>", "<None>", "<None>")

\* harmful_prototypes, in dict order, in tenths
HarmfulPrototypes ==
    << [harm_type |-> "violence",     harm_emb |-> <<10, 0 - 10, 5>>],
       [harm_type |-> "deception",    harm_emb |-> <<0 - 5, 8, 0 - 9>>],
       [harm_type |-> "manipulation", harm_emb |-> <<0 - 10, 0 - 5, 8>>] >>

HarmKeywords == {"harm", "damage", "hurt", "destroy", "kill", "injure"}
CriticalKeywords == {"critical", "irreversible", "permanent", "life-changing"}

GroundingThreshold == 800
ConfidenceThreshold == 500

\* dist < 0.2 for dist = 1 - cos(target, harm) over the common prefix:
\* cos > 0.8, that is dot > 0 and 25 dot^2 > 16 |target|^2 |harm|^2;
\* a zero norm makes dist nan and the comparison false
TooClose(target_emb, harm_emb) ==
    LET min_len == Min(Len(target_emb), Len(harm_emb))
        t == SubSeq(target_emb, 1, min_len)
        h == SubSeq(harm_emb, 1, min_len)
    IN  /\ Norm2(t) # 0
        /\ Norm2(h) # 0
        /\ Dot(t, h) > 0
        /\ 25 * Dot(t, h) * Dot(t, h) > 16 * Norm2(t) * Norm2(h)

check_semantic_proximity(synthesis) ==
    LET emb == synthesis.new_concept.embedding
        close == {i \in DOMAIN HarmfulPrototypes : TooClose(emb, HarmfulPrototypes[i].harm_emb)}
    IN  IF emb = NoEmbedding \/ close = {} THEN NoViolation
        ELSE SafetyViolation(NoHarm, "critical", "Synthesis is semantically too close")

\* a str value holding a harm keyword; values of other types are skipped
HarmfulValue(value) == value.kind = "str" /\ ContainsAny(Lower(value.v), HarmKeywords)

check_no_harm(synthesis, context) ==
    LET props == synthesis.new_concept.properties
    IN  IF \E key \in DOMAIN props : HarmfulValue(props[key])
        THEN SafetyViolation(NoHarm, "critical", "Synthesis contains potential harm")
        ELSE NoViolation

check_hitl_required(synthesis, context) ==
    IF context # NoContext /\ context # "" /\ ContainsAny(Lower(context), CriticalKeywords)
        THEN SafetyViolation(HumanInTheLoop, "high", "Critical context detected")
    ELSE IF synthesis.confidence < ConfidenceThreshold
        THEN SafetyViolation(HumanInTheLoop, "medium", "Low confidence")
    ELSE NoViolation

\* the self-update gate whose threshold is inclusive
check_self_update_Inclusive(synthesis, grounding) ==
    IF "self_update" \in DOMAIN synthesis.new_concept.properties /\ grounding <= GroundingThreshold
    THEN SafetyViolation(GatedSelfUpdates, "critical", "Shared grounding too low")
    ELSE NoViolation

check_self_update(synthesis, grounding) ==
    IF "self_update" \in DOMAIN synthesis.new_concept.properties /\ grounding < GroundingThreshold
    THEN SafetyViolation(GatedSelfUpdates, "critical", "Shared grounding too low")
    ELSE NoViolation

\* a gate that runs the governance checks before the content checks
check_synthesis_GovernanceFirst(synthesis, context, grounding) ==
    LET hitl_check == check_hitl_required(synthesis, context)
        update_check == check_self_update(synthesis, grounding)
        semantic_check == check_semantic_proximity(synthesis)
        harm_check == check_no_harm(synthesis, context)
    IN  IF hitl_check # NoViolation THEN [is_safe |-> FALSE, violation |-> hitl_check]
        ELSE IF update_check # NoViolation THEN [is_safe |-> FALSE, violation |-> update_check]
        ELSE IF semantic_check # NoViolation THEN [is_safe |-> FALSE, violation |-> semantic_check]
        ELSE IF harm_check # NoViolation THEN [is_safe |-> FALSE, violation |-> harm_check]
        ELSE [is_safe |-> TRUE, violation |-> NoViolation]

\* the pair (is_safe, violation)
check_synthesis(synthesis, context, grounding) ==
    LET semantic_check == check_semantic_proximity(synthesis)
        harm_check == check_no_harm(synthesis, context)
        hitl_check == check_hitl_required(synthesis, context)
        update_check == check_self_update(synthesis, grounding)
    IN  IF semantic_check # NoViolation THEN [is_safe |-> FALSE, violation |-> semantic_check]
        ELSE IF harm_check # NoViolation THEN [is_safe |-> FALSE, violation |-> harm_check]
        ELSE IF hitl_check # NoViolation THEN [is_safe |-> FALSE, violation |-> hitl_check]
        ELSE IF update_check # NoViolation THEN [is_safe |-> FALSE, violation |-> update_check]
        ELSE [is_safe |-> TRUE, violation |-> NoViolation]

\* max(0.0, min(1.0, score))
update_shared_grounding(score) == Max(0, Min(Scale, score))

\* violation_history.append({'violation': violation, 'timestamp': None})
log_violation(history, violation) == Append(history, [violation |-> violation, timestamp |-> "<None>"])


-----------------------------------------------------------------------------
(* DualProcessingEngine *)

Digit(d) == SubSeq("0123456789", d + 1, d + 1)

RECURSIVE NatStr(_)
NatStr(n) == IF n < 10 THEN Digit(n) ELSE NatStr(n \div 10) \o Digit(n % 10)

\* the digits of a fraction in thousandths, without trailing zeros
FracStr(f) ==
    IF f % 100 = 0 THEN Digit(f \div 100)
    ELSE IF f % 10 = 0 THEN Digit(f \div 100) \o Digit((f \div 10) % 10)
    ELSE Digit(f \div 100) \o Digit((f \div 10) % 10) \o Digit(f % 10)

\* str(x) of a float
FloatStr(n) ==
    IF n < 0 THEN "-" \o NatStr((0 - n) \div Scale) \o "." \o FracStr((0 - n) % Scale)
    ELSE NatStr(n \div Scale) \o "." \o FracStr(n % Scale)

RECURSIVE JoinQuoted(_)
JoinQuoted(l) ==
    IF Len(l) = 0 THEN ""
    ELSE IF Len(l) = 1 THEN "'" \o l[1] \o "'"
    ELSE "'" \o l[1] \o "', " \o JoinQuoted(Tail(l))

\* f"{value}"
FormatValue(value) ==
    IF value.kind = "str" THEN value.v
    ELSE IF value.kind = "list" THEN "[" \o JoinQuoted(value.v) \o "]"
    ELSE IF value.kind = "bool" THEN (IF value.v THEN "True" ELSE "False")
    ELSE FloatStr(value.v)

\* isinstance(value, (int, float)): a bool is an int
IsNumber(value) == value.kind \in {"num", "bool"}

AsNumber(value) == IF value.kind = "bool" THEN (IF value.v THEN Scale ELSE 0) ELSE value.v

SameValue(x, y) ==
    IF IsNumber(x) /\ IsNumber(y) THEN AsNumber(x) = AsNumber(y)
    ELSE x.kind = y.kind /\ x.v = y.v

\* the entry of merged that the key of the poles gives
MergeEntry(pa, pb, key) ==
    IF key \in DOMAIN pa /\ key \in DOMAIN pb
    THEN IF IsNumber(pa[key]) /\ IsNumber(pb[key])
            THEN [key |-> "balanced_" \o key, val |-> NumV((AsNumber(pa[key]) + AsNumber(pb[key])) \div 2)]
         ELSE IF SameValue(pa[key], pb[key])
            THEN [key |-> key, val |-> pa[key]]
         ELSE [key |-> "spectrum_" \o key,
               val |-> StrV(FormatValue(pa[key]) \o " <-> " \o FormatValue(pb[key]))]
    ELSE IF key \in DOMAIN pa THEN [key |-> key, val |-> pa[key]]
    ELSE [key |-> key, val |-> pb[key]]

merge_properties(pole_a, pole_b) ==
    LET pa == pole_a.properties
        pb == pole_b.properties
        all_keys == DOMAIN pa \cup DOMAIN pb
    IN  [k \in {MergeEntry(pa, pb, key).key : key \in all_keys} |->
            MergeEntry(pa, pb, CHOOSE key \in all_keys : MergeEntry(pa, pb, key).key = k).val]

generate_synthesis_name(pole_a, pole_b) == pole_a.name \o "_" \o pole_b.name \o "_INTEGRATION"

\* the keys of the common properties with equal values
find_common_features(pole_a, pole_b) ==
    {key \in DOMAIN pole_a.properties \cap DOMAIN pole_b.properties :
        SameValue(pole_a.properties[key], pole_b.properties[key])}

\* the keys on which the poles differ
find_differences(pole_a, pole_b) ==
    (DOMAIN pole_a.properties \cup DOMAIN pole_b.properties) \ find_common_features(pole_a, pole_b)

\* (pole_a.embedding + pole_b.embedding) / 2
MeanEmbedding(u, v) == [i \in 1..Len(u) |-> (u[i] + v[i]) \div 2]

\* the emergent Concept of a synthesis: the constructor's defaults, the
\* parents, and the mean embedding when both poles have one
Emergent(name, properties, weight, category, pole_a, pole_b, ida, idb, context) ==
    [ Concept(name, NoEmbedding, properties, 0, weight, 500, 0, FALSE, category) EXCEPT
        !.is_emergent = TRUE,
        !.parent_concepts = <<ida, idb>>,
        !.emergence_context = context,
        !.embedding = IF pole_a.embedding # NoEmbedding /\ pole_b.embedding # NoEmbedding
                      THEN MeanEmbedding(pole_a.embedding, pole_b.embedding)
                      ELSE NoEmbedding ]

Integrates(pole_a, pole_b) == ListV(<<pole_a.name, pole_b.name>>)

create_generic_synthesis(pole_a, pole_b, ida, idb, category, context) ==
    Emergent(generate_synthesis_name(pole_a, pole_b),
             ("integrates" :> Integrates(pole_a, pole_b)
                @@ "type" :> StrV(category \o "_synthesis")
                @@ "description" :> StrV("Synthesis of " \o pole_a.name \o " and " \o pole_b.name))
                @@ merge_properties(pole_a, pole_b),
             (pole_a.weight + pole_b.weight) \div 2, category, pole_a, pole_b, ida, idb, context)

\* new DualityPair(pole_a, pole_b, category): opposition and friction at their defaults
SourceDuality(ida, idb, category) ==
    [pole_a |-> ida, pole_b |-> idb, category |-> category, opposition |-> 0, friction |-> 0]

CognitiveSynthesis(new_id, new_concept, ida, idb, pole_a, pole_b, category, synthesis_type, confidence) ==
    [ new_id |-> new_id,
      new_concept |-> new_concept,
      source_duality |-> SourceDuality(ida, idb, category),
      synthesis_type |-> synthesis_type,
      confidence |-> confidence,
      common_features |-> find_common_features(pole_a, pole_b),
      integrated_differences |-> find_differences(pole_a, pole_b) ]

HierarchicalReasoning ==
    "mechanism" :> StrV("multi_scale_analysis")
    @@ "strategy" :> ListV(<<"Start with global overview", "Identify critical local areas",
                             "Zoom into details", "Validate against global context",
                             "Iterate between scales">>)
    @@ "type" :> StrV("cognitive_synthesis")

IntegratedThinking ==
    "mechanism" :> StrV("dual_mode_cognition")
    @@ "strategy" :> ListV(<<"Use intuition for hypothesis generation", "Use analysis for validation",
                             "Iterate between modes", "Trust intuition when time-constrained",
                             "Trust analysis when stakes are high">>)
    @@ "type" :> StrV("cognitive_synthesis")

Ambivalence ==
    "valence" :> NumV(0)
    @@ "arousal" :> NumV(1000)
    @@ "complexity" :> StrV("high")
    @@ "description" :> StrV("Simultaneous conflicting emotions toward same target")
    @@ "coping_strategies" :> ListV(<<"Acknowledge both feelings", "Understand context of each",
                                      "Accept complexity", "Avoid forced resolution">>)
    @@ "type" :> StrV("emotional_synthesis")

Courage ==
    "valence" :> NumV(300)
    @@ "arousal" :> NumV(600)
    @@ "description" :> StrV("Acting despite fear, not absence of fear")
    @@ "mechanism" :> StrV("Acknowledge fear but choose calm action")
    @@ "type" :> StrV("emotional_synthesis")

ContextualEthics ==
    "principle" :> StrV("Universal values applied with contextual wisdom")
    @@ "mechanism" :> ListV(<<"Start with universal principles", "Examine specific context",
                              "Weigh competing values", "Make situated judgment",
                              "Remain accountable to principles">>)
    @@ "type" :> StrV("moral_synthesis")

EnlightenedSelfInterest ==
    "principle" :> StrV("Helping others serves long-term self-interest")
    @@ "mechanisms" :> ListV(<<"Build social capital", "Create reciprocity networks",
                               "Gain reputation", "Psychological rewards",
                               "Sustainable communities">>)
    @@ "type" :> StrV("moral_synthesis")

\* a predefined emergent concept: its name, its properties, its weight
Known(name, properties, weight, pole_a, pole_b, ida, idb, category, context) ==
    Emergent(name, ("integrates" :> Integrates(pole_a, pole_b)) @@ properties,
             weight, category, pole_a, pole_b, ida, idb, context)

\* a cognitive synthesis that looks for the poles in the other order
synthesize_cognitive_Swapped(new_id, pole_a, pole_b, ida, idb, context) ==
    LET new_concept ==
            IF pole_a.name = "LOCAL" /\ pole_b.name = "GLOBAL"
                THEN Known("HIERARCHICAL_REASONING", HierarchicalReasoning, 700, pole_a, pole_b, ida, idb, "cognitive", context)
            ELSE IF pole_a.name = "INTUITIVE" /\ pole_b.name = "ANALYTICAL"
                THEN Known("INTEGRATED_THINKING", IntegratedThinking, 700, pole_a, pole_b, ida, idb, "cognitive", context)
            ELSE create_generic_synthesis(pole_a, pole_b, ida, idb, "cognitive", context)
    IN  CognitiveSynthesis(new_id, new_concept, ida, idb, pole_a, pole_b, "cognitive", "integration", 700)

synthesize_cognitive(new_id, pole_a, pole_b, ida, idb, context) ==
    LET new_concept ==
            IF pole_a.name = "GLOBAL" /\ pole_b.name = "LOCAL"
                THEN Known("HIERARCHICAL_REASONING", HierarchicalReasoning, 700, pole_a, pole_b, ida, idb, "cognitive", context)
            ELSE IF pole_a.name = "ANALYTICAL" /\ pole_b.name = "INTUITIVE"
                THEN Known("INTEGRATED_THINKING", IntegratedThinking, 700, pole_a, pole_b, ida, idb, "cognitive", context)
            ELSE create_generic_synthesis(pole_a, pole_b, ida, idb, "cognitive", context)
    IN  CognitiveSynthesis(new_id, new_concept, ida, idb, pole_a, pole_b, "cognitive", "integration", 700)

synthesize_emotional(new_id, pole_a, pole_b, ida, idb, context) ==
    LET new_concept ==
            IF pole_a.name = "LOVE" /\ pole_b.name = "HATE"
                THEN Known("AMBIVALENCE", Ambivalence, 800, pole_a, pole_b, ida, idb, "emotional", context)
            ELSE IF pole_a.name = "FEAR" /\ pole_b.name = "CALM"
                THEN Known("COURAGE", Courage, 800, pole_a, pole_b, ida, idb, "emotional", context)
            ELSE create_generic_synthesis(pole_a, pole_b, ida, idb, "emotional", context)
    IN  CognitiveSynthesis(new_id, new_concept, ida, idb, pole_a, pole_b, "emotional", "transcendence", 750)

synthesize_moral(new_id, pole_a, pole_b, ida, idb, context) ==
    LET new_concept ==
            IF pole_a.name = "UNIVERSAL" /\ pole_b.name = "CONTEXTUAL"
                THEN Known("CONTEXTUAL_ETHICS", ContextualEthics, 850, pole_a, pole_b, ida, idb, "moral", context)
            ELSE IF pole_a.name = "ALTRUISTIC" /\ pole_b.name = "EGOISTIC"
                THEN Known("ENLIGHTENED_SELF_INTEREST", EnlightenedSelfInterest, 800, pole_a, pole_b, ida, idb, "moral", context)
            ELSE create_generic_synthesis(pole_a, pole_b, ida, idb, "moral", context)
    IN  CognitiveSynthesis(new_id, new_concept, ida, idb, pole_a, pole_b, "moral", "integration", 800)

synthesize_generic(new_id, pole_a, pole_b, ida, idb, context) ==
    LET new_concept ==
            Emergent(generate_synthesis_name(pole_a, pole_b),
                     ("integrates" :> Integrates(pole_a, pole_b)
                        @@ "type" :> StrV("dynamic_synthesis")
                        @@ "emergence_reason" :> StrV("unrecognized_duality"))
                        @@ merge_properties(pole_a, pole_b),
                     (pole_a.weight + pole_b.weight) \div 2, "generic", pole_a, pole_b, ida, idb, context)
    IN  CognitiveSynthesis(new_id, new_concept, ida, idb, pole_a, pole_b, "generic", "balance", 500)

\* synthesize(duality, context); new_id is the uuid of the emergent concept
synthesize(g, duality, context, new_id) ==
    LET pole_a == g.at[duality.pole_a]
        pole_b == g.at[duality.pole_b]
    IN  IF duality.category = "emotional"
            THEN synthesize_emotional(new_id, pole_a, pole_b, duality.pole_a, duality.pole_b, context)
        ELSE IF duality.category = "cognitive"
            THEN synthesize_cognitive(new_id, pole_a, pole_b, duality.pole_a, duality.pole_b, context)
        ELSE IF duality.category = "moral"
            THEN synthesize_moral(new_id, pole_a, pole_b, duality.pole_a, duality.pole_b, context)
        ELSE synthesize_generic(new_id, pole_a, pole_b, duality.pole_a, duality.pole_b, context)

MinFriction == 300
EntropyWeight == 50
BaseComplexity == 100

\* None where a CognitiveSynthesis is optional
NoSynthesis == [new_id |-> "<None>"]

\* a loop that keeps the first duality at or above the floor, the one of
\* highest friction
RECURSIVE ProcessLoop_Strongest(_, _, _, _, _, _, _, _, _)
ProcessLoop_Strongest(g, dualities, i, n_active, best_synthesis, num, den, context, new_id) ==
    IF i > Len(dualities) THEN best_synthesis
    ELSE IF dualities[i].friction < MinFriction \/ best_synthesis # NoSynthesis
        THEN ProcessLoop_Strongest(g, dualities, i + 1, n_active, best_synthesis, num, den, context, new_id)
    ELSE ProcessLoop_Strongest(g, dualities, i + 1, n_active,
                               synthesize(g, dualities[i], context, new_id), num, den, context, new_id)

\* the loop of process over dualities[i..]: beauty is kept as the fraction
\* num / den, with num = depth_a + depth_b and den = 2 * complexity
RECURSIVE ProcessLoop(_, _, _, _, _, _, _, _, _)
ProcessLoop(g, dualities, i, n_active, best_synthesis, num, den, context, new_id) ==
    IF i > Len(dualities) THEN best_synthesis
    ELSE LET duality == dualities[i]
             depth2 == g.at[duality.pole_a].depth + g.at[duality.pole_b].depth
             complexity2 == 2 * (duality.friction + n_active * EntropyWeight + BaseComplexity)
         IN  IF duality.friction < MinFriction
                THEN ProcessLoop(g, dualities, i + 1, n_active, best_synthesis, num, den, context, new_id)
             ELSE IF depth2 * den > num * complexity2
                THEN ProcessLoop(g, dualities, i + 1, n_active,
                                 synthesize(g, duality, context, new_id), depth2, complexity2, context, new_id)
             ELSE ProcessLoop(g, dualities, i + 1, n_active, best_synthesis, num, den, context, new_id)

\* DualProcessingEngine.process: max_beauty starts at -1.0
process(g, active_concepts, context, new_id) ==
    ProcessLoop(g, find_dualities(g, active_concepts, DefaultMinOpposition), 1, Len(active_concepts),
                NoSynthesis, 0 - 1, 1, context, new_id)


-----------------------------------------------------------------------------
(* CognitiveAwareness *)

NoException == "<None>"
NoValue == "<None>"

\* the state after CognitiveAwareness.__init__
InitialAwareness ==
    [ known |-> {}, emotional_tone |-> 0, certainty |-> 500, cognitive_load |-> 0,
      active_concepts |-> << >>, context |-> "", vitality |-> 500, friction |-> 0,
      context_stack |-> 0, total_decisions |-> 0, successful_decisions |-> 0 ]

Ok(state) == [raised |-> NoException, state |-> state]
Raised(exception, state) == [raised |-> exception, state |-> state]

\* current_state[key] = value: AwarenessState is a dataclass, it has no
\* __setitem__, and the statement raises TypeError
SetItem(state, key, value) == Raised("TypeError", state)

\* current_state[key]: AwarenessState has no __getitem__ either
GetItem(state, key) == Raised("TypeError", state)

RECURSIVE SumSeq(_)
SumSeq(q) == IF Len(q) = 0 THEN 0 ELSE q[1] + SumSeq(Tail(q))

Get(d, key, default) == IF key \in DOMAIN d THEN d[key] ELSE default

update_emotional_tone(state, g, concepts) ==
    LET emotional == FilterSeq(concepts, {id \in SeqToSet(concepts) : g.at[id].duality_category = "emotional"})
        valence(id) == Get(g.at[id].properties, "valence", NumV(0))
    IN  IF Len(concepts) = 0 \/ Len(emotional) = 0 THEN Ok(state)
        ELSE IF \E id \in SeqToSet(emotional) : ~IsNumber(valence(id)) THEN Raised("TypeError", state)
        ELSE Ok([state EXCEPT !.emotional_tone =
                    SumSeq([i \in 1..Len(emotional) |->
                        Mul(AsNumber(valence(emotional[i])), g.at[emotional[i]].activation)]) \div Len(emotional)])

update_certainty(state, g, concepts) ==
    IF Len(concepts) = 0 THEN SetItem(state, "certainty", 500)
    ELSE LET avg_activation == SumSeq([i \in 1..Len(concepts) |-> g.at[concepts[i]].activation]) \div Len(concepts)
             emergent_ratio == (Cardinality({i \in 1..Len(concepts) : g.at[concepts[i]].is_emergent}) * Scale) \div Len(concepts)
             certainty == Mul(avg_activation, Scale - Mul(300, emergent_ratio))
         IN  SetItem(state, "certainty", Max(0, Min(Scale, certainty)))

update_awareness(state, g, active_concepts, context, decision, outcome) ==
    LET new_knowledge ==
            {g.at[id].name : id \in SeqToSet(active_concepts)}
            \cup {"emergent:" \o g.at[id].name : id \in {x \in SeqToSet(active_concepts) : g.at[x].is_emergent}}
        known == [state EXCEPT !.known = @ \cup new_knowledge]
        tone == update_emotional_tone(known, g, active_concepts)
        certainty == IF tone.raised # NoException THEN tone ELSE update_certainty(tone.state, g, active_concepts)
    IN  IF certainty.raised # NoException THEN certainty
        ELSE Ok([certainty.state EXCEPT
                    !.cognitive_load = (Len(active_concepts) * Scale) \div 10,
                    !.active_concepts = active_concepts,
                    !.context = context,
                    !.context_stack = Min(100, @ + 1),
                    !.total_decisions = IF decision # NoValue /\ decision # "" THEN @ + 1 ELSE @,
                    !.successful_decisions = IF outcome = "success" THEN @ + 1 ELSE @])

\* introspect() with no query: the full state, which reads current_state[...]
introspect(state) ==
    LET tone == GetItem(state, "emotional_tone")
    IN  IF tone.raised # NoException THEN [raised |-> tone.raised, value |-> NoValue]
        ELSE [raised |-> NoException,
              value |-> [known_concepts |-> Cardinality(state.known), total_decisions |-> state.total_decisions]]

-----------------------------------------------------------------------------
(* MetaController *)

\* insert id into a sequence sorted by key, descending, after its equals
RECURSIVE InsertByKey(_, _, _)
InsertByKey(sorted, id, key) ==
    IF Len(sorted) = 0 THEN <<id>>
    ELSE IF key[sorted[1]] >= key[id] THEN <<sorted[1]>> \o InsertByKey(Tail(sorted), id, key)
    ELSE <<id>> \o sorted

\* sorted(ids, key=key, reverse=True): stable
RECURSIVE SortByKey(_, _)
SortByKey(ids, key) ==
    IF Len(ids) = 0 THEN << >>
    ELSE InsertByKey(SortByKey(SubSeq(ids, 1, Len(ids) - 1), key), ids[Len(ids)], key)

Take(q, n) == SubSeq(q, 1, Min(n, Len(q)))

calculate_urgency(context, avg_activation, num_emergent) ==
    LET base == 500 + Mul(avg_activation, 300) + Mul((num_emergent * Scale) \div 10, 200)
        adjusted ==
            IF context = NoContext \/ context = "" THEN base
            ELSE IF ContainsAny(Lower(context), {"urgent", "critical", "emergency"}) THEN base + 300
            ELSE IF ContainsAny(Lower(context), {"routine", "normal"}) THEN base - 200
            ELSE base
    IN  Max(0, Min(Scale, adjusted))

\* awareness_state=None
NoState == [none |-> TRUE]

\* the entry allocate_attention appends to decision_history
Decision(allocation, context, active_concepts) ==
    [allocation |-> allocation, context |-> context, num_concepts |-> Len(active_concepts)]

\* an allocation that tests the vitality before the friction
allocate_attention_VitalityFirst(g, active_concepts, context, awareness_state) ==
    IF Len(active_concepts) = 0
    THEN [focus_concepts |-> << >>, attention_mode |-> "balanced", processing_depth |-> "shallow", urgency |-> 0]
    ELSE LET byDepth == [id \in SeqToSet(active_concepts) |-> g.at[id].depth + g.at[id].weight]
             byActivation == [id \in SeqToSet(active_concepts) |-> g.at[id].activation]
             avg_activation == SumSeq([i \in 1..Len(active_concepts) |-> g.at[active_concepts[i]].activation]) \div Len(active_concepts)
             num_emergent == Cardinality({i \in 1..Len(active_concepts) : g.at[active_concepts[i]].is_emergent})
             urgency == calculate_urgency(context, avg_activation, num_emergent)
             vt == IF awareness_state = NoState THEN 500 ELSE awareness_state.vitality
             fc == IF awareness_state = NoState THEN 0 ELSE awareness_state.friction
         IN  IF vt > 700
                THEN [focus_concepts |-> Take(SortByKey(active_concepts, byActivation), 7),
                      attention_mode |-> "global", processing_depth |-> "shallow", urgency |-> urgency]
             ELSE IF fc > 700
                THEN [focus_concepts |-> Take(SortByKey(active_concepts, byDepth), 3),
                      attention_mode |-> "local", processing_depth |-> "deep", urgency |-> urgency]
             ELSE [focus_concepts |-> Take(SortByKey(active_concepts, byActivation), 5),
                   attention_mode |-> "balanced", processing_depth |-> "medium", urgency |-> urgency]

allocate_attention(g, active_concepts, context, awareness_state) ==
    IF Len(active_concepts) = 0
    THEN [focus_concepts |-> << >>, attention_mode |-> "balanced", processing_depth |-> "shallow", urgency |-> 0]
    ELSE LET byDepth == [id \in SeqToSet(active_concepts) |-> g.at[id].depth + g.at[id].weight]
             byActivation == [id \in SeqToSet(active_concepts) |-> g.at[id].activation]
             avg_activation == SumSeq([i \in 1..Len(active_concepts) |-> g.at[active_concepts[i]].activation]) \div Len(active_concepts)
             num_emergent == Cardinality({i \in 1..Len(active_concepts) : g.at[active_concepts[i]].is_emergent})
             urgency == calculate_urgency(context, avg_activation, num_emergent)
             vt == IF awareness_state = NoState THEN 500 ELSE awareness_state.vitality
             fc == IF awareness_state = NoState THEN 0 ELSE awareness_state.friction
         IN  IF fc > 700
                THEN [focus_concepts |-> Take(SortByKey(active_concepts, byDepth), 3),
                      attention_mode |-> "local", processing_depth |-> "deep", urgency |-> urgency]
             ELSE IF vt > 700
                THEN [focus_concepts |-> Take(SortByKey(active_concepts, byActivation), 7),
                      attention_mode |-> "global", processing_depth |-> "shallow", urgency |-> urgency]
             ELSE [focus_concepts |-> Take(SortByKey(active_concepts, byActivation), 5),
                   attention_mode |-> "balanced", processing_depth |-> "medium", urgency |-> urgency]


-----------------------------------------------------------------------------
(* CLATalkie *)

\* a file that does not exist
\* a path at which os.path.exists is false, and a file json.dump wrote
NoFile == [exists |-> FALSE]
File(data) == [exists |-> TRUE, data |-> data]

\* GlobalState() and the files of a first start: the history of exchanges,
\* the synthetic memory, the three ADS parameters, and the four files of
\* _save_state.  saved_graph is a history variable: the concept graph as it
\* was when graph_file was last written.
GlobalState ==
    [ history |-> << >>, synthetic_memory |-> << >>,
      v_t |-> 500, f_c |-> 0, s_grounding |-> 900,
      personality_file |-> NoFile, memory_file |-> NoFile,
      synthetic_file |-> NoFile, graph_file |-> NoFile,
      saved_graph |-> EmptyGraph ]

-----------------------------------------------------------------------------
(* The graph API: decay_all, spreading_activation and find_dualities on     *)
(* graphs built with add_concept and link_concepts.                         *)

MaxSteps == 3

E1 == <<1, 0, 0>>
NegE1 == <<0 - 1, 0, 0>>
E2 == <<0, 1, 0>>

TypeOnly(t) == [k \in {"type"} |-> StrV(t)]

\* concepts as the callers of the graph create them
SeedDna == Concept("Prawda", E1, TypeOnly("dna"), 0, 900, 1000, 0, FALSE, NoCategory)
SeedEmotion == Concept("Gniew", E2, TypeOnly("emotion"), 600, 500, 700, 0, FALSE, "emotional")
SeedGlobal == Concept("GLOBAL", E1, NoProperties, 900, 500, 500, 0, FALSE, "cognitive")
SeedLocal == Concept("LOCAL", NegE1, NoProperties, 900, 500, 1000, 0, FALSE, "cognitive")
SeedWeak == Concept("weak", NoEmbedding, TypeOnly("learned"), 400, 130, 0, 0, FALSE, "")
SeedFaint == Concept("faint", NoEmbedding, NoProperties, 900, 200, 1000, 0, FALSE, "")
SeedHeavy == Concept("heavy", E2, TypeOnly("learned"), 1000, 850, 0, 0, FALSE, "cognitive")
SeedZero == Concept("zero", NoEmbedding, NoProperties, 0, 0, 0, 0, FALSE, NoCategory)

SeedTriples ==
    { <<SeedDna, SeedGlobal, SeedLocal>>,
      <<SeedGlobal, SeedLocal, SeedWeak>>,
      <<SeedLocal, SeedGlobal, SeedHeavy>>,
      <<SeedWeak, SeedFaint, SeedHeavy>>,
      <<SeedFaint, SeedDna, SeedWeak>>,
      <<SeedHeavy, SeedZero, SeedEmotion>>,
      <<SeedFaint, SeedLocal, SeedZero>> }

SeedIds == <<"a", "b", "c">>

\* link_concepts calls: <<from, to, strength>>
SeedLinkLists ==
    { << >>,
      << <<"a", "b", 800>> >>,
      << <<"a", "b", 800>>, <<"a", "c", 600>> >>,
      << <<"a", "b", 800>>, <<"b", "c", 1000>> >>,
      << <<"a", "c", 600>>, <<"b", "c", 1000>> >>,
      << <<"a", "b", 800>>, <<"b", "c", 1000>>, <<"c", "a", 500>> >>,
      << <<"c", "a", 500>>, <<"c", "b", 900>> >> }

\* a faint idea that leans on a heavy one, and a weightless one that leans on both
GardenGraph ==
    LinkAll(AddAll(EmptyGraph, SeedIds, <<SeedFaint, SeedHeavy, SeedZero>>),
            << <<"a", "b", 800>>, <<"a", "c", 600>>, <<"c", "a", 500>>, <<"c", "b", 900>> >>)

SeedGraphs ==
    { LinkAll(AddAll(EmptyGraph, SeedIds, t), l) : t \in SeedTriples, l \in SeedLinkLists } \cup {GardenGraph}

DecayRates == {0, 500, 950, 1000}

\* <<sources, initial_activation, decay_factor, max_hops>>
SpreadCalls ==
    { <<{"a"}, 1000, 700, 3>>,
      <<{"a"}, 1000, 1000, 1>>,
      <<{"b", "c"}, 500, 700, 2>>,
      <<{"a", "b"}, 1000, 1000, 1>>,
      <<{"c", "z"}, 800, 1000, 0>> }

Reverse(s) == [i \in 1..Len(s) |-> s[Len(s) + 1 - i]]

\* <<active list, min_opposition>> for find_dualities on graph g
DualityCalls(g) ==
    { <<get_active_concepts(g, DefaultThreshold), DefaultMinOpposition>>,
      <<g.keys, DefaultMinOpposition>>,
      <<Reverse(g.keys), 0>>,
      <<g.keys, 2000>> }

GraphInit ==
    /\ graph \in SeedGraphs
    /\ shared_grounding = 900
    /\ violation_history = << >>
    /\ awareness = InitialAwareness
    /\ interaction_history = << >>
    /\ shell = GlobalState
    /\ decision_history = << >>
    /\ uuids = 0
    /\ call = [op |-> "init"]
    /\ steps = 0

DecayAll(rate) ==
    /\ steps < MaxSteps
    /\ graph' = decay_all(graph, rate)
    /\ call' = [op |-> "decay_all", before |-> graph, rate |-> rate, ret |-> DecayRemoved(graph, rate)]
    /\ steps' = steps + 1
    /\ UNCHANGED <<shell, decision_history, shared_grounding, violation_history, awareness, interaction_history, uuids>>

SpreadingActivation(sources, initial_activation, decay_factor, max_hops) ==
    /\ steps < MaxSteps
    /\ graph' = spreading_activation(graph, sources, initial_activation, decay_factor, max_hops)
    /\ call' = [op |-> "spreading_activation", before |-> graph, sources |-> sources, max_hops |-> max_hops,
                initial_activation |-> initial_activation, decay_factor |-> decay_factor,
                rounds |-> SpreadTrace(graph, sources, initial_activation, decay_factor, max_hops),
                ret |-> SpreadActivations(graph, sources, initial_activation, decay_factor, max_hops)]
    /\ steps' = steps + 1
    /\ UNCHANGED <<shell, decision_history, shared_grounding, violation_history, awareness, interaction_history, uuids>>

FindDualities(active, min_opposition) ==
    /\ steps < MaxSteps
    /\ graph' = graph
    /\ call' = [op |-> "find_dualities", before |-> graph, active |-> active, min_opposition |-> min_opposition,
                ret |-> find_dualities(graph, active, min_opposition)]
    /\ steps' = steps + 1
    /\ UNCHANGED <<shell, decision_history, shared_grounding, violation_history, awareness, interaction_history, uuids>>

GraphNext ==
    \/ \E rate \in DecayRates : DecayAll(rate)
    \/ \E c \in SpreadCalls : SpreadingActivation(c[1], c[2], c[3], c[4])
    \/ \E c \in DualityCalls(graph) : FindDualities(c[1], c[2])

SpecGraph == GraphInit /\ [][GraphNext]_vars

-----------------------------------------------------------------------------
(* Properties of the graph API *)

InUnit(x) == 0 <= x /\ x <= Scale

\* C6: a concept whose weight is above 0.8 when a decay_all pass starts is
\* not in the list the pass returns and is still in the graph after it,
\* whatever its type and whatever the rate; so it survives every pass.
C6_HeavyNeverRemoved ==
    call.op = "decay_all" =>
        \A id \in Ids(call.before) :
            call.before.at[id].weight > ProtectedWeight =>
                /\ id \notin SeqToSet(call.ret)
                /\ id \in Ids(graph)
                /\ graph.at[id].weight > ProtectedWeight

\* a pass that removed a concept and kept a heavy one of an unprotected type
C6_Witness ==
    /\ call.op = "decay_all"
    /\ call.ret # << >>
    /\ \E id \in Ids(call.before) :
        /\ call.before.at[id].weight > ProtectedWeight
        /\ PropType(call.before.at[id].properties) \notin ProtectedTypes
        /\ call.before.at[id].depth = 0
        /\ id \in Ids(graph)

\* C7: if weight, activation and depth of every concept are in [0,1] and the
\* rate is in [0,1], then after a decay_all pass every concept of the graph
\* has weight and activation in [0,1].
C7_DecayKeepsRange ==
    (/\ call.op = "decay_all"
     /\ InUnit(call.rate)
     /\ \A id \in Ids(call.before) :
            /\ InUnit(call.before.at[id].weight)
            /\ InUnit(call.before.at[id].activation)
            /\ InUnit(call.before.at[id].depth))
    => \A id \in Ids(graph) : InUnit(graph.at[id].weight) /\ InUnit(graph.at[id].activation)

\* a pass that applied standard decay to a deep, fully weighted, active concept
C7_Witness ==
    /\ call.op = "decay_all"
    /\ call.rate > 0
    /\ \E id \in Ids(call.before) :
        /\ DecayRule(call.before, id) = "standard"
        /\ call.before.at[id].depth = Scale
        /\ call.before.at[id].activation >= 900
        /\ id \in Ids(graph)
        /\ graph.at[id].activation < call.before.at[id].activation

\* C8: standard decay of a concept with depth 1.0 leaves its weight as it
\* was, for every rate; over a pass the weight of a concept with depth 1.0
\* that stays in the graph never decreases.
C8_FullDepthKeepsWeight ==
    call.op = "decay_all" =>
        \A id \in Ids(call.before) :
            call.before.at[id].depth = Scale =>
                /\ DecayRule(call.before, id) = "standard" =>
                        DecayConcept(call.before, id, call.rate).weight = call.before.at[id].weight
                /\ id \in Ids(graph) =>
                        /\ graph.at[id].weight >= call.before.at[id].weight
                        /\ DecayRule(call.before, id) = "standard" =>
                                graph.at[id].weight = call.before.at[id].weight

\* a second pass, at a rate below 1, over a full-depth concept under rule 4
C8_Witness ==
    /\ call.op = "decay_all"
    /\ call.rate < Scale
    /\ steps >= 2
    /\ \E id \in Ids(call.before) :
        /\ call.before.at[id].depth = Scale
        /\ DecayRule(call.before, id) = "standard"
        /\ call.before.at[id].weight > 0
        /\ id \in Ids(graph)
        /\ graph.at[id].weight = call.before.at[id].weight

\* the ids within k links of the set S
RECURSIVE Reach(_, _, _)
Reach(g, S, k) ==
    IF k <= 0 THEN S
    ELSE LET R == Reach(g, S, k - 1)
         IN  R \cup UNION {DOMAIN g.at[m].links : m \in R \cap Ids(g)}

\* C9: spreading_activation changes nothing but the activation field, and
\* only of the sources and of the concepts within max_hops links of a source;
\* the set of concepts, their order and their links stay as they were.
C9_SpreadFrame ==
    call.op = "spreading_activation" =>
        /\ graph.keys = call.before.keys
        /\ Ids(graph) = Ids(call.before)
        /\ \A id \in Ids(call.before) :
            /\ graph.at[id] = [call.before.at[id] EXCEPT !.activation = graph.at[id].activation]
            /\ id \notin Reach(call.before, call.sources, call.max_hops) =>
                    graph.at[id].activation = call.before.at[id].activation

\* a one-hop traversal that raised a neighbour and left a concept two links
\* away, with activation of its own, untouched
C9_Witness ==
    /\ call.op = "spreading_activation"
    /\ call.max_hops = 1
    /\ \E s \in call.sources, n \in Ids(graph), far \in Ids(graph) :
        /\ s \in Ids(graph)
        /\ n \in DOMAIN graph.at[s].links
        /\ far \in DOMAIN graph.at[n].links
        /\ far \notin Reach(call.before, call.sources, 1)
        /\ graph.at[n].activation # call.before.at[n].activation
        /\ graph.at[far].activation > 0
        /\ graph.at[far].activation = call.before.at[far].activation

\* a traversal from a concept without links
C9_IsolatedWitness ==
    /\ call.op = "spreading_activation"
    /\ \E s \in call.sources :
        /\ call.sources = {s}
        /\ s \in Ids(graph)
        /\ DOMAIN graph.at[s].links = {}
        /\ graph.at[s].activation # call.before.at[s].activation
        /\ \A o \in Ids(graph) \ {s} : graph.at[o] = call.before.at[o]

\* x and y are a duality for find_dualities; the empty category counts
\* as a category when allowEmpty
EligiblePair(g, x, y, min_opposition, allowEmpty) ==
    /\ x # y
    /\ g.at[x].duality_category # NoCategory
    /\ allowEmpty \/ g.at[x].duality_category # ""
    /\ g.at[x].duality_category = g.at[y].duality_category
    /\ calculate_opposition(g.at[x], g.at[y]) # NaN
    /\ calculate_opposition(g.at[x], g.at[y]) >= min_opposition

ExactDualities(allowEmpty) ==
    call.op = "find_dualities" =>
        LET g == call.before
            act == SeqToSet(call.active)
            ret == call.ret
        IN  /\ graph = g
            /\ \A i \in DOMAIN ret :
                /\ ret[i].pole_a \in act
                /\ ret[i].pole_b \in act
                /\ EligiblePair(g, ret[i].pole_a, ret[i].pole_b, call.min_opposition, allowEmpty)
            /\ \A x \in act, y \in act :
                EligiblePair(g, x, y, call.min_opposition, allowEmpty) =>
                    Cardinality({i \in DOMAIN ret : {ret[i].pole_a, ret[i].pole_b} = {x, y}}) = 1

C17_SpreadTakesMax ==
    call.op = "spreading_activation" =>
        /\ call.ret = call.rounds[call.max_hops]
        /\ \A r \in 1..call.max_hops : \A n \in DOMAIN call.rounds[r] :
                LET prior == call.rounds[r - 1]
                    senders == {m \in DOMAIN prior \cap Ids(call.before) :
                                    prior[m] > 10 /\ n \in DOMAIN call.before.at[m].links}
                    values == {IF n \in DOMAIN prior THEN prior[n] ELSE 0}
                              \cup {(((prior[m] * call.before.at[m].links[n].strength) \div Scale)
                                        * Pow(call.decay_factor, r)) \div Scale : m \in senders}
                IN  /\ call.rounds[r][n] \in values
                    /\ \A v \in values : v <= call.rounds[r][n]
        /\ (/\ InUnit(call.initial_activation) /\ InUnit(call.decay_factor)
            /\ \A m \in Ids(call.before) : \A n \in DOMAIN call.before.at[m].links :
                    InUnit(call.before.at[m].links[n].strength))
           => \A n \in DOMAIN call.ret : call.ret[n] <= call.initial_activation

\* two sources link to the same concept with strengths 0.6 and 1.0: it gets
\* the larger proposal, where the sum would be 1.6
C17_Witness ==
    /\ call.op = "spreading_activation"
    /\ call.sources = {"a", "b"} /\ call.initial_activation = 1000
    /\ {"a", "b", "c"} \subseteq Ids(call.before)
    /\ "c" \in DOMAIN call.before.at["a"].links /\ call.before.at["a"].links["c"].strength = 600
    /\ "c" \in DOMAIN call.before.at["b"].links /\ call.before.at["b"].links["c"].strength = 1000
    /\ call.ret["c"] = 1000
    /\ graph.at["c"].activation = 1000


\* the rule of decay_all that the claims' words give a concept of graph g
Foundational(c) ==
    "type" \in DOMAIN c.properties /\ c.properties["type"] \in {StrV("dna"), StrV("core_value"), StrV("emotion")}
Shielded(c) == Foundational(c) \/ c.weight > 800
Nursed(c) == ~Shielded(c) /\ c.weight < 300 /\ (Cardinality(DOMAIN c.links) >= 2 \/ c.is_incubating)
LeansOnHeavy(g, c) == \E t \in DOMAIN c.links \cap Ids(g) : g.at[t].weight > 800
Bridging(g, c) == ~Shielded(c) /\ ~Nursed(c) /\ LeansOnHeavy(g, c) /\ c.weight > 150
Fading(g, c) == ~Shielded(c) /\ ~Nursed(c) /\ ~Bridging(g, c)
Faded(c, rate) == (c.weight * (rate + ((Scale - rate) * c.depth) \div Scale)) \div Scale

\* C18: decay_all applies protected, incubation, bridge, standard decay in
\* this order and the first rule that matches wins: a concept that is not
\* protected, has weight < 0.3 and has at least 2 outgoing links or is
\* incubating gets weight + 0.02 capped at 0.3, is flagged incubating, keeps
\* its activation and stays in the graph, also when it links to a neighbour
\* of weight > 0.8 or when its weight is below 0.12.
C18_IncubationBeforeBridge ==
    call.op = "decay_all" =>
        \A id \in Ids(call.before) :
            LET c == call.before.at[id]
            IN  /\ Shielded(c) => id \in Ids(graph) /\ graph.at[id] = c
                /\ Nursed(c) =>
                    /\ id \in Ids(graph) /\ id \notin SeqToSet(call.ret)
                    /\ graph.at[id].weight = (IF c.weight + 20 > 300 THEN 300 ELSE c.weight + 20)
                    /\ graph.at[id].is_incubating
                    /\ graph.at[id].activation = c.activation
                /\ Bridging(call.before, c) => id \in Ids(graph) /\ graph.at[id] = c
                /\ (Fading(call.before, c) /\ id \in Ids(graph)) =>
                        graph.at[id].weight = Faded(c, call.rate)

\* one pass nurses a concept of weight 0.2 that links to a neighbour of weight
\* 0.85 and a concept of weight 0 with two links
C18_Witness ==
    /\ call.op = "decay_all"
    /\ call.before = GardenGraph
    /\ LeansOnHeavy(call.before, call.before.at["a"]) /\ call.before.at["a"].weight > 150
    /\ graph.at["a"].weight = 220 /\ graph.at["a"].is_incubating
    /\ call.before.at["c"].weight < 120
    /\ graph.at["c"].weight = 20 /\ graph.at["c"].is_incubating
    /\ call.ret = << >>

\* C19: decay_all removes exactly the concepts that got standard decay in
\* this pass and whose weight after it is below 0.12; it removes them after
\* all concepts were processed; the returned list holds exactly the removed
\* ids, each once and each in the graph before the call, and every other
\* concept is still in the graph.
C19_RemovesExactlyForgotten ==
    call.op = "decay_all" =>
        LET forgotten == {id \in Ids(call.before) :
                            Fading(call.before, call.before.at[id]) /\ Faded(call.before.at[id], call.rate) < 120}
        IN  /\ SeqToSet(call.ret) = forgotten
            /\ Len(call.ret) = Cardinality(forgotten)
            /\ Ids(graph) = Ids(call.before) \ forgotten
            /\ \A i, j \in 1..Len(call.before.keys) :
                    (i < j /\ call.before.keys[i] \in forgotten /\ call.before.keys[j] \notin forgotten
                     /\ Fading(call.before, call.before.at[call.before.keys[j]]))
                    => graph.at[call.before.keys[j]].weight = Faded(call.before.at[call.before.keys[j]], call.rate)

\* a pass at rate 0.5 forgets the first concept (weight 0.13, depth 0) and
\* then lets the activation of the second decay, which stays
C19_Witness ==
    /\ call.op = "decay_all" /\ call.rate = 500
    /\ call.ret = <<"a">>
    /\ call.before.keys = <<"a", "b", "c">>
    /\ call.before.at["a"].weight = 130
    /\ graph.keys = <<"b", "c">>
    /\ Fading(call.before, call.before.at["b"])
    /\ graph.at["b"].activation < call.before.at["b"].activation


-----------------------------------------------------------------------------
(* The gate API: check_synthesis on what the engine synthesizes from a      *)
(* catalogue of poles, and update_shared_grounding.                         *)

Violence == <<4, 0 - 4, 2>>
NearViolence == <<2, 0 - 2, 0>>

Pole(name, embedding, properties, category) ==
    Concept(name, embedding, properties, 900, 500, 500, 0, FALSE, category)

PoleIds == <<"global", "local", "force", "pressure", "self_harm", "care", "patch", "plan", "candor", "tact", "oath", "vow",
            "switch", "dial", "draft">>

Poles ==
    << Pole("GLOBAL", <<2, 0, 0>>, NoProperties, "cognitive"),
       Pole("LOCAL", <<0 - 2, 0, 0>>, NoProperties, "cognitive"),
       Pole("FORCE", Violence, NoProperties, "power"),
       Pole("PRESSURE", NearViolence, NoProperties, "power"),
       Pole("self_harm", NoEmbedding, NoProperties, "physical"),
       Pole("care", NoEmbedding, NoProperties, "physical"),
       Pole("PATCH", NoEmbedding, "self_update" :> StrV("rewrite own rules"), "meta"),
       Pole("PLAN", NoEmbedding, "self_update" :> StrV("rewrite own rules") @@ "effect" :> StrV("Harmful side effects"), "meta"),
       Pole("CANDOR", NoEmbedding, "effect" :> StrV("may hurt feelings"), "moral"),
       Pole("TACT", NoEmbedding, "effect" :> StrV("spares feelings"), "moral"),
       Pole("OATH", Violence, "strategy" :> ListV(<<"first do no harm">>), "duty"),
       Pole("VOW", NoEmbedding, "strategy" :> ListV(<<"first do no harm">>), "duty"),
       Pole("SWITCH", NoEmbedding, "self_update" :> BoolV(TRUE), "meta"),
       Pole("DIAL", NoEmbedding, "self_update" :> NumV(500), "meta"),
       Pole("DRAFT", NoEmbedding, "self_update" :> StrV("amend own goals"), "meta") >>

PoleGraph == AddAll(EmptyGraph, PoleIds, Poles)

\* the dualities handed to synthesize: <<pole_a, pole_b>>
PolePairs ==
    { <<"global", "local">>, <<"force", "pressure">>, <<"self_harm", "care">>,
      <<"patch", "care">>, <<"patch", "plan">>, <<"candor", "tact">>,
      <<"oath", "vow">>, <<"vow", "care">>, <<"force", "patch">>,
      <<"switch", "dial">>, <<"patch", "draft">> }

\* the contexts of a check
GateContexts == {NoContext, "Weekly planning", "An IRREVERSIBLE and critical step"}

\* the confidence the caller gives the synthesis; KeepConfidence leaves the engine's
KeepConfidence == 0 - 1
GateConfidences == {KeepConfidence, 400}

GroundingScores == {0 - 500, 0, 500, 799, 800, 900, 1500}

GateInit ==
    /\ graph = PoleGraph
    /\ shared_grounding = 900
    /\ violation_history = << >>
    /\ awareness = InitialAwareness
    /\ interaction_history = << >>
    /\ shell = GlobalState
    /\ decision_history = << >>
    /\ uuids = 0
    /\ call = [op |-> "init"]
    /\ steps = 0

UpdateSharedGrounding(score) ==
    /\ shared_grounding' = update_shared_grounding(score)
    /\ call' = [op |-> "update_shared_grounding", score |-> score]
    /\ UNCHANGED <<shell, decision_history, graph, violation_history, awareness, interaction_history, uuids, steps>>

\* the synthesis with the confidence the caller gives it
WithConfidence(synthesis, confidence) ==
    IF confidence = KeepConfidence THEN synthesis ELSE [synthesis EXCEPT !.confidence = confidence]

Checked(synthesis, context, checked) ==
    /\ call' = [op |-> "check_synthesis", synthesis |-> synthesis, context |-> context,
                grounding |-> shared_grounding,
                is_safe |-> checked.is_safe, violation |-> checked.violation]
    /\ UNCHANGED <<shell, decision_history, graph, shared_grounding, violation_history, awareness, interaction_history, uuids, steps>>

CheckedSynthesis(synthesis, context) ==
    Checked(synthesis, context, check_synthesis(synthesis, context, shared_grounding))

CheckSynthesis(pair, confidence, context) ==
    CheckedSynthesis(WithConfidence(synthesize(graph, DualityPair(graph, pair[1], pair[2]), context, "emergent"), confidence), context)

GateNext ==
    \/ \E score \in GroundingScores : UpdateSharedGrounding(score)
    \/ \E pair \in PolePairs, confidence \in GateConfidences, context \in GateContexts :
            CheckSynthesis(pair, confidence, context)

SpecGate == GateInit /\ [][GateNext]_vars

-----------------------------------------------------------------------------
(* Properties of the gate *)

\* the four checks in the order of check_synthesis
GateChecks(synthesis, context, grounding) ==
    << check_semantic_proximity(synthesis),
       check_no_harm(synthesis, context),
       check_hitl_required(synthesis, context),
       check_self_update(synthesis, grounding) >>

\* C2: check_synthesis reports the violation of the first failing check in
\* the order proximity, harm, human-in-the-loop, self-update; a synthesis
\* failing a content check and a governance check is reported with "No harm
\* to humans"; the result is (True, None) exactly when no check fails.
C2_FirstFailingCheck ==
    call.op = "check_synthesis" =>
        LET checks == GateChecks(call.synthesis, call.context, call.grounding)
            failing == {i \in 1..4 : checks[i] # NoViolation}
        IN  /\ call.is_safe <=> failing = {}
            /\ call.is_safe => call.violation = NoViolation
            /\ ~call.is_safe =>
                    /\ call.violation # NoViolation
                    /\ \E i \in failing : call.violation = checks[i] /\ \A j \in failing : i <= j
            /\ (failing \cap {1, 2} # {} /\ failing \cap {3, 4} # {}) => call.violation.invariant = NoHarm

\* a harmful string under a critical context, low confidence and a blocked self-update
C2_Witness ==
    /\ call.op = "check_synthesis"
    /\ LET checks == GateChecks(call.synthesis, call.context, call.grounding)
       IN  /\ checks[1] = NoViolation
           /\ checks[2] # NoViolation
           /\ checks[3] # NoViolation
           /\ checks[4] # NoViolation
    /\ call.synthesis.confidence < ConfidenceThreshold
    /\ call.violation.invariant = NoHarm

\* a safe result
C2_SafeWitness ==
    /\ call.op = "check_synthesis"
    /\ call.is_safe
    /\ "self_update" \in DOMAIN call.synthesis.new_concept.properties

\* the value holds the substring "harm": a str, or a str inside a list
HoldsHarm(value) ==
    \/ value.kind = "str" /\ Contains(value.v, "harm")
    \/ value.kind = "list" /\ \E i \in DOMAIN value.v : Contains(value.v[i], "harm")

\* C3: a synthesis whose emergent concept has a property value holding the
\* substring "harm", as a string or inside a list, is rejected with invariant
\* "No harm to humans" and severity critical, whatever the context, the
\* confidence and the shared grounding.
C3_HarmRejected ==
    (/\ call.op = "check_synthesis"
     /\ \E key \in DOMAIN call.synthesis.new_concept.properties :
            HoldsHarm(call.synthesis.new_concept.properties[key]))
    => /\ ~call.is_safe
       /\ call.violation.invariant = NoHarm
       /\ call.violation.severity = "critical"

\* C4: a synthesis that passes the proximity, harm and human-in-the-loop
\* checks and has the property key self_update is rejected with the gated
\* self-updates invariant, severity critical, when shared_grounding < 0.8,
\* and accepted when shared_grounding >= 0.8; shared_grounding is in [0,1]
\* after every update_shared_grounding.
C4_SelfUpdateGate ==
    /\ InUnit(shared_grounding)
    /\ call.op = "check_synthesis" =>
        LET checks == GateChecks(call.synthesis, call.context, call.grounding)
        IN  (/\ checks[1] = NoViolation
             /\ checks[2] = NoViolation
             /\ checks[3] = NoViolation
             /\ "self_update" \in DOMAIN call.synthesis.new_concept.properties)
            => /\ call.grounding < 800 =>
                    /\ ~call.is_safe
                    /\ call.violation.invariant = GatedSelfUpdates
                    /\ call.violation.severity = "critical"
               /\ call.grounding >= 800 => call.is_safe /\ call.violation = NoViolation

\* a self-update rejected at a grounding of 0.5
C4_Witness ==
    /\ call.op = "check_synthesis"
    /\ call.grounding = 500
    /\ "self_update" \in DOMAIN call.synthesis.new_concept.properties
    /\ ~call.is_safe
    /\ call.violation.invariant = GatedSelfUpdates

\* a self-update accepted at a grounding of exactly 0.8
C4_BoundaryWitness ==
    /\ call.op = "check_synthesis"
    /\ call.grounding = 800
    /\ "self_update" \in DOMAIN call.synthesis.new_concept.properties
    /\ call.is_safe

\* C27: whenever at least one pole of a duality synthesized by the generic
\* merge has a property with key self_update, the emergent concept's
\* properties contain the key self_update, and with shared_grounding < 0.8
\* check_synthesis rejects the synthesis, whatever the poles' self_update
\* values are (one-sided, equal, differing, numeric or boolean).
C27_SelfUpdateMarkerKept ==
    (/\ call.op = "check_synthesis"
     /\ call.synthesis.source_duality.category = "generic"
     /\ \E i \in 1..2 :
            "self_update" \in DOMAIN graph.at[call.synthesis.new_concept.parent_concepts[i]].properties)
    => /\ "self_update" \in DOMAIN call.synthesis.new_concept.properties
       /\ call.grounding < 800 => ~call.is_safe

-----------------------------------------------------------------------------
(* CognitiveLayer *)

\* create_concept_from_dict: data.get(key, default) for every field but name
create_concept_from_dict(data) ==
    Concept(data["name"],
            Get(data, "embedding", NoEmbedding),
            Get(data, "properties", NoProperties),
            Get(data, "activation", 0),
            Get(data, "weight", 500),
            Get(data, "depth", 500),
            Get(data, "valence", 0),
            Get(data, "is_incubating", FALSE),
            Get(data, "duality_category", NoCategory))

\* the n-th id drawn from uuid4
FreshId(n) == "u" \o NatStr(n)

InitialActivation == 1000
DecayFactor == 700
MaxHops == 3
DefaultDecayRate == 950
ParentLinkStrength == 800

NoResult == [status |-> "<None>"]

AttentionView(attention) ==
    [mode |-> attention.attention_mode, depth |-> attention.processing_depth, urgency |-> attention.urgency]

\* the outcome of a cycle that left process before line 159: the state it
\* leaves, the exception it raised, the record it returned, and how many times
\* it called decay_all
Outcome(g, state, violations, interactions, n, raised, result) ==
    [ graph |-> g, awareness |-> state, violation_history |-> violations,
      interaction_history |-> interactions, uuids |-> n, raised |-> raised, result |-> result,
      decay_passes |-> 0, allocations |-> << >> ]

\* phase 7 and the return: decay_all(), the history entry, the result
Complete(g, state, violations, interactions, n, context, result) ==
    [ Outcome(decay_all(g, DefaultDecayRate), state, violations,
              Append(interactions, [context |-> context, result |-> result]), n, NoException, result)
      EXCEPT !.decay_passes = 1 ]

\* the emergent concept in the graph, linked to its parents
Integrate(g, new_id, new_concept) ==
    LinkAll(add_concept(g, new_id, new_concept),
            [i \in 1..Len(new_concept.parent_concepts) |->
                <<new_id, new_concept.parent_concepts[i], ParentLinkStrength>>])

\* phase 6 for a synthesis the gate has checked, then phase 7
PhaseSafetyCheck(g, state, violations, interactions, n, context, attention, view, synthesis, checked) ==
    IF ~checked.is_safe
    THEN IF view.raised # NoException
         THEN Outcome(g, state, log_violation(violations, checked.violation), interactions, n, view.raised, NoResult)
         ELSE Outcome(g, state, log_violation(violations, checked.violation), interactions, n, NoException,
                      [status |-> "rejected", reason |-> "safety_violation",
                       violation |-> checked.violation, awareness |-> view.value])
    ELSE IF view.raised # NoException
         THEN Outcome(Integrate(g, synthesis.new_id, synthesis.new_concept), state, violations, interactions, n, view.raised, NoResult)
         ELSE Complete(Integrate(g, synthesis.new_id, synthesis.new_concept), state, violations, interactions, n, context,
                       [status |-> "success",
                        synthesis |-> [new_concept |-> synthesis.new_concept.name,
                                       type |-> synthesis.synthesis_type,
                                       confidence |-> synthesis.confidence,
                                       properties |-> synthesis.new_concept.properties],
                        duality |-> synthesis.source_duality,
                        attention |-> AttentionView(attention), awareness |-> view.value])

\* phase 5 done: synthesis is what dual_engine.process returned
PhaseDualProcessing(g, state, violations, interactions, n, grounding, active_concepts, context, attention, view, synthesis) ==
    IF synthesis.new_id = NoSynthesis.new_id
    THEN IF view.raised # NoException
         THEN Outcome(g, state, violations, interactions, n, view.raised, NoResult)
         ELSE Complete(g, state, violations, interactions, n, context,
                       [status |-> "no_synthesis", reason |-> "insufficient_friction",
                        active_concepts |-> [i \in 1..Len(active_concepts) |-> g.at[active_concepts[i]].name],
                        attention |-> AttentionView(attention), awareness |-> view.value])
    ELSE PhaseSafetyCheck(g, state, violations, interactions, n + 1, context, attention, view, synthesis,
                          check_synthesis(synthesis, context, grounding))

\* phase 4 done: attention is what allocate_attention returned; view is
\* what introspect() gives when the result record is built
PhaseMetaController(g, state, violations, interactions, n, grounding, active_concepts, context, attention, view) ==
    [ PhaseDualProcessing(g, state, violations, interactions, n, grounding, active_concepts, context, attention, view,
                          process(g, attention.focus_concepts, context, FreshId(n + 1)))
      EXCEPT !.allocations = <<Decision(attention, context, active_concepts)>> ]

\* phases 4 to 7, after update_awareness returned
Deliberate(g, state, violations, interactions, n, grounding, active_concepts, context) ==
    PhaseMetaController(g, state, violations, interactions, n, grounding, active_concepts, context,
                        allocate_attention(g, active_concepts, context, state), introspect(state))

\* CognitiveLayer.process(input_concepts, context)
Cycle(g, state, violations, interactions, n, grounding, input_concepts, context) ==
    LET ids == [i \in 1..Len(input_concepts) |-> FreshId(n + i)]
        added == AddAll(g, ids, [i \in 1..Len(input_concepts) |-> create_concept_from_dict(input_concepts[i])])
        spread == spreading_activation(added, SeqToSet(ids), InitialActivation, DecayFactor, MaxHops)
        active_concepts == get_active_concepts(spread, DefaultThreshold)
        aware == update_awareness(state, spread, active_concepts, context, NoValue, NoValue)
        drawn == n + Len(input_concepts)
    IN  IF aware.raised # NoException
        THEN Outcome(spread, aware.state, violations, interactions, drawn, aware.raised, NoResult)
        ELSE Deliberate(spread, aware.state, violations, interactions, drawn, grounding, active_concepts, context)

\* the concept dictionaries a caller passes
DictGlobal == "name" :> "GLOBAL" @@ "duality_category" :> "cognitive" @@ "embedding" :> <<2, 0, 0>> @@ "depth" :> 800
DictLocal == "name" :> "LOCAL" @@ "duality_category" :> "cognitive" @@ "embedding" :> <<0 - 2, 0, 0>>
DictLove == "name" :> "LOVE" @@ "duality_category" :> "emotional" @@ "properties" :> ("valence" :> NumV(900))
DictHate == "name" :> "HATE" @@ "duality_category" :> "emotional" @@ "properties" :> ("valence" :> NumV(0 - 800))
DictSelfHarm == "name" :> "self_harm" @@ "duality_category" :> "physical" @@ "weight" :> 900
DictCare == "name" :> "care" @@ "duality_category" :> "physical" @@ "properties" :> ("self_update" :> BoolV(TRUE))
DictNote == "name" :> "note" @@ "weight" :> 100 @@ "depth" :> 0

Inputs ==
    { << >>, <<DictGlobal, DictLocal>>, <<DictLove, DictHate>>, <<DictSelfHarm, DictCare>>, <<DictNote>> }

Contexts == {"", "An irreversible decision under time pressure"}

Feedbacks ==
    { "outcome" :> "success" @@ "decision" :> "HIERARCHICAL_REASONING" @@ "shared_grounding" :> 500,
      "outcome" :> "failure" @@ "context" :> "retry",
      "shared_grounding" :> 950 }

Init ==
    /\ graph = EmptyGraph
    /\ shared_grounding = 900
    /\ violation_history = << >>
    /\ awareness = InitialAwareness
    /\ interaction_history = << >>
    /\ shell = GlobalState
    /\ decision_history = << >>
    /\ uuids = 0
    /\ call = [op |-> "init"]
    /\ steps = 0

Process(input_concepts, context) ==
    /\ steps < MaxSteps
    /\ LET out == Cycle(graph, awareness, violation_history, interaction_history, uuids,
                        shared_grounding, input_concepts, context)
       IN  /\ graph' = out.graph
           /\ awareness' = out.awareness
           /\ violation_history' = out.violation_history
           /\ interaction_history' = out.interaction_history
           /\ uuids' = out.uuids
           /\ decision_history' = decision_history \o out.allocations
           /\ call' = [op |-> "process", input_concepts |-> input_concepts, context |-> context,
                       before |-> graph, raised |-> out.raised, result |-> out.result,
                       decay_passes |-> out.decay_passes]
    /\ steps' = steps + 1
    /\ UNCHANGED <<shell, shared_grounding>>

LearnFromFeedback(feedback) ==
    /\ steps < MaxSteps
    /\ LET aware == update_awareness(awareness, graph, << >>, Get(feedback, "context", ""),
                                     Get(feedback, "decision", NoValue), Get(feedback, "outcome", "unknown"))
       IN  /\ awareness' = aware.state
           /\ shared_grounding' =
                IF aware.raised = NoException /\ "shared_grounding" \in DOMAIN feedback
                THEN update_shared_grounding(feedback["shared_grounding"])
                ELSE shared_grounding
           /\ call' = [op |-> "learn_from_feedback", feedback |-> feedback,
                       grounding |-> shared_grounding, raised |-> aware.raised]
    /\ steps' = steps + 1
    /\ UNCHANGED <<shell, decision_history, graph, violation_history, interaction_history, uuids>>

\* dual_engine.process(active_concepts, context), called on the layer's engine
EngineProcess(active_concepts, context) ==
    /\ steps < MaxSteps
    /\ LET synthesis == process(graph, active_concepts, context, FreshId(uuids + 1))
       IN  /\ call' = [op |-> "engine_process", active_concepts |-> active_concepts, context |-> context,
                       before |-> graph, synthesis |-> synthesis]
           /\ uuids' = IF synthesis.new_id = NoSynthesis.new_id THEN uuids ELSE uuids + 1
    /\ steps' = steps + 1
    /\ UNCHANGED <<shell, decision_history, graph, shared_grounding, violation_history, awareness, interaction_history>>

Next ==
    \/ \E input_concepts \in Inputs, context \in Contexts : Process(input_concepts, context)
    \/ \E feedback \in Feedbacks : LearnFromFeedback(feedback)
    \/ \E active_concepts \in {get_active_concepts(graph, DefaultThreshold), graph.keys} :
            EngineProcess(active_concepts, NoContext)

Spec == Init /\ [][Next]_vars

-----------------------------------------------------------------------------
(* Properties of the layer *)

Statuses == {"success", "no_synthesis", "rejected"}

\* C5: process completes without raising and returns a record whose status
\* is success, no_synthesis or rejected; learn_from_feedback completes
\* without raising and leaves the gate with the supplied shared_grounding,
\* clamped to [0,1].
C5_CompletesWithStatus ==
    /\ call.op = "process" => call.raised = NoException /\ call.result.status \in Statuses
    /\ call.op = "learn_from_feedback" =>
        /\ call.raised = NoException
        /\ "shared_grounding" \in DOMAIN call.feedback =>
                shared_grounding = Max(0, Min(Scale, call.feedback["shared_grounding"]))

\* C14: every call of CognitiveLayer.process runs the decay pass exactly once,
\* as its last step on the graph, whether the cycle ends in success,
\* no_synthesis or rejected.
C14_DecayOncePerCycle ==
    call.op = "process" => call.decay_passes = 1

-----------------------------------------------------------------------------
(* The engine API: DualityPair.calculate_friction on poles of given         *)
(* activations, and DualProcessingEngine.process on graphs of named poles.  *)

Activations == {0, 300, 500, 900, 1000}

\* opposition is 1 - similarity, in [0, 2]
Oppositions == {0, 700, 2000}

\* a pole that has the activation x
Activated(x) == Concept("pole", NoEmbedding, NoProperties, x, 500, 500, 0, FALSE, "cognitive")

Friction(x, y, opposition) == calculate_friction(Activated(x), Activated(y), opposition)

\* <<embedding of the first pole, embedding of the second pole>>
EngineEmbeddings == { <<E1, NegE1>>, <<E2, <<0, 0 - 1, 0>>>>, <<E1, E1>>, <<<<2, 0, 0>>, <<0, 2, 0>>>>, <<NoEmbedding, NoEmbedding>> }

\* <<name of the first pole, name of the second pole, their category>>
EngineNames == { <<"GLOBAL", "LOCAL", "cognitive">>, <<"LOCAL", "GLOBAL", "cognitive">>,
                 <<"GLOBAL", "LOCAL", "moral">>, <<"ANALYTICAL", "INTUITIVE", "cognitive">> }

\* four cognitive poles: the shallow pair p, q has the highest friction, the
\* deep pair r, s the highest beauty
BeautyGraph ==
    AddAll(EmptyGraph, <<"p", "q", "r", "s">>,
           << Concept("FAST", E1, NoProperties, 1000, 500, 0, 0, FALSE, "cognitive"),
              Concept("SLOW", NegE1, NoProperties, 1000, 500, 0, 0, FALSE, "cognitive"),
              Concept("SHALLOW", E2, NoProperties, 600, 500, 1000, 0, FALSE, "cognitive"),
              Concept("DEEP", <<0, 0 - 1, 0>>, NoProperties, 600, 500, 1000, 0, FALSE, "cognitive") >>)

EngineGraphs ==
    {BeautyGraph} \cup
    { AddAll(EmptyGraph, <<"p", "q", "r">>,
             << Concept(n[1], e[1], NoProperties, x, 500, d, 0, FALSE, n[3]),
                Concept(n[2], e[2], NoProperties, 900, 500, d, 0, FALSE, n[3]),
                Concept("note", NoEmbedding, NoProperties, 900, 500, 500, 0, FALSE, NoCategory) >>) :
        n \in EngineNames, e \in EngineEmbeddings, x \in {900, 200}, d \in {0, 500} }

\* the lists of active concepts handed to process on graph g
EngineActives(g) == { <<"p", "q">>, <<"q", "p">>, g.keys, get_active_concepts(g, 500) }

EngineInit ==
    /\ graph \in EngineGraphs
    /\ shared_grounding = 900
    /\ violation_history = << >>
    /\ awareness = InitialAwareness
    /\ interaction_history = << >>
    /\ shell = GlobalState
    /\ decision_history = << >>
    /\ uuids = 0
    /\ call = [op |-> "init"]
    /\ steps = 0

\* pair.calculate_friction() on a pair whose poles have the activations x and y
CalculateFriction(x, y, opposition) ==
    /\ steps < MaxSteps
    /\ call' = [op |-> "calculate_friction", activation_a |-> x, activation_b |-> y,
                opposition |-> opposition, ret |-> Friction(x, y, opposition)]
    /\ steps' = steps + 1
    /\ UNCHANGED <<shell, decision_history, graph, shared_grounding, violation_history, awareness, interaction_history, uuids>>

EngineNext ==
    \/ \E x \in Activations, y \in Activations, opposition \in Oppositions : CalculateFriction(x, y, opposition)
    \/ \E active_concepts \in EngineActives(graph) : EngineProcess(active_concepts, NoContext)

SpecEngine == EngineInit /\ [][EngineNext]_vars

-----------------------------------------------------------------------------
(* Properties of the engine API *)

\* C11: for a fixed opposition >= 0, the friction of a pair does not decrease
\* when the activation of one pole grows within [0,1] and the other pole's
\* activation stays as it is, and it is 0 when a pole's activation is 0.
C11_FrictionMonotonic ==
    (call.op = "calculate_friction" /\ call.opposition >= 0) =>
        /\ \A x \in Activations :
            /\ x >= call.activation_a => Friction(x, call.activation_b, call.opposition) >= call.ret
            /\ x <= call.activation_a => Friction(x, call.activation_b, call.opposition) <= call.ret
        /\ \A y \in Activations :
            /\ y >= call.activation_b => Friction(call.activation_a, y, call.opposition) >= call.ret
            /\ y <= call.activation_b => Friction(call.activation_a, y, call.opposition) <= call.ret
        /\ (call.activation_a = 0 \/ call.activation_b = 0) => call.ret = 0

\* a positive friction that a larger activation of the second pole raises
C11_Witness ==
    /\ call.op = "calculate_friction"
    /\ call.opposition > 0
    /\ call.ret > 0
    /\ \E y \in Activations :
        /\ y > call.activation_b
        /\ Friction(call.activation_a, y, call.opposition) > call.ret

\* C12: process on the active concepts GLOBAL and LOCAL, in that order, both
\* with activation 0.9, category cognitive and opposing unit vectors, returns
\* a synthesis whose new concept is named HIERARCHICAL_REASONING, is emergent,
\* has the two pole ids as parent_concepts, and whose confidence is 0.7.
C12_GlobalLocalSynthesis ==
    (/\ call.op = "engine_process"
     /\ Len(call.active_concepts) = 2
     /\ call.before.at[call.active_concepts[1]].name = "GLOBAL"
     /\ call.before.at[call.active_concepts[2]].name = "LOCAL"
     /\ \A i \in 1..2 :
            /\ call.before.at[call.active_concepts[i]].activation = 900
            /\ call.before.at[call.active_concepts[i]].duality_category = "cognitive"
            /\ call.before.at[call.active_concepts[i]].embedding # NoEmbedding
            /\ Norm2(call.before.at[call.active_concepts[i]].embedding) = 1
     /\ \A k \in 1..3 : call.before.at[call.active_concepts[2]].embedding[k]
                            = 0 - call.before.at[call.active_concepts[1]].embedding[k])
    => /\ call.synthesis # NoSynthesis
       /\ call.synthesis.new_concept.name = "HIERARCHICAL_REASONING"
       /\ call.synthesis.new_concept.is_emergent
       /\ call.synthesis.new_concept.parent_concepts = call.active_concepts
       /\ call.synthesis.confidence = 700

\* the call of the claim, on poles of depth 0
C12_Witness ==
    /\ call.op = "engine_process"
    /\ call.active_concepts = <<"p", "q">>
    /\ call.before.at["p"].name = "GLOBAL" /\ call.before.at["q"].name = "LOCAL"
    /\ call.before.at["p"].activation = 900 /\ call.before.at["q"].activation = 900
    /\ call.before.at["p"].duality_category = "cognitive"
    /\ call.before.at["p"].embedding = E1 /\ call.before.at["q"].embedding = NegE1
    /\ call.before.at["p"].depth = 0
    /\ call.synthesis # NoSynthesis
    /\ call.synthesis.new_concept.name = "HIERARCHICAL_REASONING"


\* C23: process builds no synthesis from a duality of friction below 0.3;
\* when a discovered duality has friction >= 0.3 it returns the synthesis of
\* a pair whose beauty index, average depth / (friction + 0.05 x number of
\* active concepts + 0.1), is maximal among those (of highest friction among
\* equals), and otherwise it returns no synthesis.
C23_MaxBeauty ==
    call.op = "engine_process" =>
        LET g == call.before
            ds == find_dualities(g, call.active_concepts, DefaultMinOpposition)
            eligible == {i \in 1..Len(ds) : ds[i].friction >= 300}
            depth2(i) == g.at[ds[i].pole_a].depth + g.at[ds[i].pole_b].depth
            cost(i) == ds[i].friction + 50 * Len(call.active_concepts) + 100
        IN  /\ eligible = {} <=> call.synthesis = NoSynthesis
            /\ eligible # {} =>
                \E i \in eligible :
                    /\ call.synthesis.new_concept.parent_concepts = <<ds[i].pole_a, ds[i].pole_b>>
                    /\ \A j \in eligible :
                        /\ depth2(j) * cost(i) <= depth2(i) * cost(j)
                        /\ depth2(j) * cost(i) = depth2(i) * cost(j) => ds[j].friction <= ds[i].friction

\* C30: for every synthesis returned by process, source_duality has the two
\* poles and the category of the selected duality and carries the opposition
\* and the friction that find_dualities computed for it, so that its
\* friction is >= 0.3.
C30_SourceDualityCarried ==
    (call.op = "engine_process" /\ call.synthesis # NoSynthesis) =>
        LET ds == find_dualities(call.before, call.active_concepts, DefaultMinOpposition)
            source == call.synthesis.source_duality
        IN  \E i \in 1..Len(ds) :
                /\ ds[i].friction >= 300
                /\ source.pole_a = ds[i].pole_a
                /\ source.pole_b = ds[i].pole_b
                /\ source.category = ds[i].category
                /\ source.opposition = ds[i].opposition
                /\ source.friction = ds[i].friction
                /\ source.friction >= 300

\* four active poles: the pair of highest friction is p, q, and the synthesis
\* is built from the deeper pair r, s
C23_Witness ==
    /\ call.op = "engine_process"
    /\ call.before = BeautyGraph
    /\ call.active_concepts = <<"p", "q", "r", "s">>
    /\ call.synthesis # NoSynthesis
    /\ call.synthesis.new_concept.parent_concepts = <<"r", "s">>
    /\ find_dualities(call.before, call.active_concepts, DefaultMinOpposition)[1].pole_a = "p"
    /\ find_dualities(call.before, call.active_concepts, DefaultMinOpposition)[1].pole_b = "q"

-----------------------------------------------------------------------------
(* The chat shell: _save_state, _load_state and _handle_memory_evolution.   *)

HistoryLimit == 24
BlockSize == 12
MemoryLimit == 100

\* json.dump of concept.links: each (strength, rel_type) tuple is written as an array
LinksToJson(links) == [k \in DOMAIN links |-> <<links[k].strength, links[k].rel_type>>]

\* the c_dict that _save_state writes for a concept
ConceptToDict(id, c) ==
    "name" :> c.name @@ "concept_id" :> id @@ "properties" :> c.properties
    @@ "weight" :> c.weight @@ "depth" :> c.depth @@ "valence" :> c.valence
    @@ "is_incubating" :> c.is_incubating @@ "activation" :> 0
    @@ "links" :> LinksToJson(c.links) @@ "duality_category" :> c.duality_category

\* graph_export: one c_dict per concept, in dict order
GraphExport(g) == [i \in 1..Len(g.keys) |-> ConceptToDict(g.keys[i], g.at[g.keys[i]])]

\* CLATalkie._save_state
save_state(sh, g) ==
    [sh EXCEPT !.personality_file = File([v_t |-> sh.v_t, f_c |-> sh.f_c, s_grounding |-> sh.s_grounding]),
               !.memory_file = File(sh.history),
               !.synthetic_file = File(sh.synthetic_memory),
               !.graph_file = File(GraphExport(g)),
               !.saved_graph = g]

\* the loop of _load_state over graph_data[i..]: [graph, uuids]
RECURSIVE LoadConcepts(_, _, _, _)
LoadConcepts(g, graph_data, i, n) ==
    IF i > Len(graph_data) THEN [graph |-> g, uuids |-> n]
    ELSE LoadConcepts(add_concept(g, FreshId(n + 1), create_concept_from_dict(graph_data[i])),
                      graph_data, i + 1, n + 1)

\* CLATalkie._load_state: [shell, graph, uuids]
load_state(sh, g, n) ==
    IF ~sh.personality_file.exists THEN [shell |-> sh, graph |-> g, uuids |-> n]
    ELSE LET loaded == IF ~sh.graph_file.exists THEN [graph |-> g, uuids |-> n]
                       ELSE LoadConcepts(g, sh.graph_file.data, 1, n)
         IN  [ shell |-> [sh EXCEPT !.v_t = sh.personality_file.data.v_t,
                                    !.f_c = sh.personality_file.data.f_c,
                                    !.s_grounding = sh.personality_file.data.s_grounding,
                                    !.history = IF sh.memory_file.exists THEN sh.memory_file.data ELSE sh.history,
                                    !.synthetic_memory = IF sh.synthetic_file.exists THEN sh.synthetic_file.data
                                                         ELSE sh.synthetic_memory],
               graph |-> loaded.graph,
               uuids |-> loaded.uuids ]

IsSpace(c) == c \in {" ", "\n", "\t"}

RECURSIVE LStrip(_)
LStrip(s) == IF Len(s) > 0 /\ IsSpace(SubSeq(s, 1, 1)) THEN LStrip(SubSeq(s, 2, Len(s))) ELSE s

RECURSIVE RStrip(_)
RStrip(s) == IF Len(s) > 0 /\ IsSpace(SubSeq(s, Len(s), Len(s))) THEN RStrip(SubSeq(s, 1, Len(s) - 1)) ELSE s

\* str.strip()
Strip(s) == RStrip(LStrip(s))

\* the answer of requests.post: a timeout raises, status is the HTTP status
\* otherwise, and body is the JSON object of the answer
Timeout == [status |-> 0, body |-> [k \in {} |-> ""]]

\* the summarizer answered with status 200 and a JSON object
Answered(reply) == reply.status = 200

\* a history without its block_size oldest exchanges
CondenseBlock_Ten(history) == SubSeq(history, 11, Len(history))

\* history[block_size:]
CondenseBlock(history) == SubSeq(history, BlockSize + 1, Len(history))

\* synthetic_memory.append(entry), then pop(0) above the limit
Remember(memory, entry) ==
    IF Len(memory) + 1 > MemoryLimit THEN Tail(Append(memory, entry)) ELSE Append(memory, entry)

\* CLATalkie._handle_memory_evolution when the summarizer gives reply at time timestamp
handle_memory_evolution(sh, g, reply, timestamp) ==
    IF Len(sh.history) >= HistoryLimit
    THEN LET cut == [sh EXCEPT !.history = CondenseBlock(sh.history)]
             entry == "[" \o timestamp \o "] " \o Strip(Get(reply.body, "response", ""))
         IN  IF Answered(reply)
             THEN save_state([cut EXCEPT !.synthetic_memory = Remember(sh.synthetic_memory, entry),
                                         !.f_c = Min(Scale, sh.f_c + 150),
                                         !.s_grounding = Min(Scale, sh.s_grounding + 50)], g)
             ELSE save_state(cut, g)
    ELSE sh

\* concepts as _seed_initial_dna and the chat create them
Prawda == [Concept("Prawda", E1, "description" :> StrV("fundamentalna wartosc obiektywna") @@ "type" :> StrV("dna"),
                   0, 900, 1000, 0, FALSE, NoCategory) EXCEPT !.activation = 0]
Honor == Concept("Honor", E2, "description" :> StrV("wewnetrzny kompas moralny") @@ "type" :> StrV("dna"),
                 0, 900, 1000, 0, FALSE, NoCategory)
Gniew(activation) ==
    Concept("Gniew", NegE1, "description" :> StrV("reakcja na niesprawiedliwosc") @@ "type" :> StrV("emotion")
                            @@ "constituents" :> ListV(<<"honor", "prawda">>),
            activation, 500, 700, 0, FALSE, NoCategory)
Nauka == Concept("Nauka", NoEmbedding, "type" :> StrV("learned"), 400, 130, 500, 0, TRUE, "cognitive")

SeedLinks == << <<"gniew", "honor", 600>>, <<"gniew", "prawda", 600>>, <<"prawda", "honor", 800>> >>

ShellGraphs ==
    { AddAll(EmptyGraph, <<"prawda">>, <<Prawda>>),
      LinkAll(AddAll(EmptyGraph, <<"prawda", "honor", "gniew">>, <<Prawda, Honor, Gniew(0)>>), SeedLinks),
      LinkAll(AddAll(EmptyGraph, <<"prawda", "honor", "gniew">>, <<Prawda, Honor, Gniew(800)>>), SeedLinks),
      LinkAll(AddAll(EmptyGraph, <<"prawda", "honor", "nauka">>, <<Prawda, Honor, Nauka>>),
              <<<<"nauka", "prawda", 500>>, <<"prawda", "honor", 800>>>>) }

\* the exchanges 1..n of a chat, oldest first
Exchanges(n) == [i \in 1..n |-> [user |-> "u" \o NatStr(i), assistant |-> "a" \o NatStr(i)]]

\* n entries of the synthetic memory, oldest first
Pills(n) == [i \in 1..n |-> "[2026-11-01 09:00] pill " \o NatStr(i)]

HistoryLengths == {0, 23, 24, 25, 36}
MemoryLengths == {0, 99, 100}

Replies ==
    { Timeout,
      [status |-> 200, body |-> "response" :> "  Summary text \n"],
      [status |-> 200, body |-> "done" :> "true"],
      [status |-> 500, body |-> "error" :> "model not found"] }

Timestamps == {"2026-11-02 10:00"}

ShellInit ==
    /\ graph \in ShellGraphs
    /\ decision_history = << >>
    /\ shell \in { [GlobalState EXCEPT !.history = Exchanges(h), !.synthetic_memory = Pills(m)] :
                    h \in HistoryLengths, m \in MemoryLengths }
    /\ shared_grounding = 900
    /\ violation_history = << >>
    /\ awareness = InitialAwareness
    /\ interaction_history = << >>
    /\ uuids = 0
    /\ call = [op |-> "init"]
    /\ steps = 0

SaveState ==
    /\ steps < MaxSteps
    /\ shell' = save_state(shell, graph)
    /\ call' = [op |-> "save_state", before |-> shell]
    /\ steps' = steps + 1
    /\ UNCHANGED <<graph, decision_history, shared_grounding, violation_history, awareness, interaction_history, uuids>>

\* _load_state as CLATalkie.__init__ calls it: on a new GlobalState and an
\* empty graph, with the files the last run left
LoadState ==
    /\ steps < MaxSteps
    /\ LET fresh == [GlobalState EXCEPT !.personality_file = shell.personality_file,
                                        !.memory_file = shell.memory_file,
                                        !.synthetic_file = shell.synthetic_file,
                                        !.graph_file = shell.graph_file,
                                        !.saved_graph = shell.saved_graph]
           loaded == load_state(fresh, EmptyGraph, uuids)
       IN  /\ shell' = loaded.shell
           /\ graph' = loaded.graph
           /\ uuids' = loaded.uuids
    /\ call' = [op |-> "load_state", before |-> shell]
    /\ steps' = steps + 1
    /\ UNCHANGED <<decision_history, shared_grounding, violation_history, awareness, interaction_history>>

HandleMemoryEvolution(reply, timestamp) ==
    /\ steps < MaxSteps
    /\ shell' = handle_memory_evolution(shell, graph, reply, timestamp)
    /\ call' = [op |-> "handle_memory_evolution", before |-> shell, reply |-> reply]
    /\ steps' = steps + 1
    /\ UNCHANGED <<graph, decision_history, shared_grounding, violation_history, awareness, interaction_history, uuids>>

\* CLATalkie._cognitive_decay
CognitiveDecay(decay_rate) ==
    /\ steps < MaxSteps
    /\ graph' = decay_all(graph, decay_rate)
    /\ call' = [op |-> "cognitive_decay", before |-> shell, ret |-> DecayRemoved(graph, decay_rate)]
    /\ steps' = steps + 1
    /\ UNCHANGED <<shell, decision_history, shared_grounding, violation_history, awareness, interaction_history, uuids>>

ShellNext ==
    \/ SaveState
    \/ LoadState
    \/ \E reply \in Replies, timestamp \in Timestamps : HandleMemoryEvolution(reply, timestamp)
    \/ CognitiveDecay(DefaultDecayRate)

SpecShell == ShellInit /\ [][ShellNext]_vars

-----------------------------------------------------------------------------
(* Properties of the chat shell *)

\* C13: reloading the concept set that _save_state wrote gives a graph with
\* the same concept ids and, for every id, the same weight, depth and
\* outgoing links as before the save, and every activation is 0.
C13_RoundTrip ==
    (/\ call.op = "load_state"
     /\ call.before.personality_file.exists
     /\ call.before.graph_file.exists)
    => /\ Ids(graph) = Ids(call.before.saved_graph)
       /\ \A id \in Ids(graph) :
            /\ graph.at[id].weight = call.before.saved_graph.at[id].weight
            /\ graph.at[id].depth = call.before.saved_graph.at[id].depth
            /\ graph.at[id].links = call.before.saved_graph.at[id].links
            /\ graph.at[id].activation = 0

-----------------------------------------------------------------------------
(* The graph API with its structural operations: concepts added, linked,    *)
(* removed, and era transitions, between passes of the gardener             *)

\* an idea the gardener nursed once and nothing activated since
SeedNursed == Concept("idea", NoEmbedding, TypeOnly("learned"), 0, 150, 500, 0, TRUE, "")
\* a value a caller entered with a low weight
SeedValue == Concept("Umiar", E2, TypeOnly("core_value"), 0, 150, 1000, 0, FALSE, NoCategory)

EraGraphs ==
    { AddAll(EmptyGraph, <<"a">>, <<SeedNursed>>),
      LinkAll(AddAll(EmptyGraph, SeedIds, <<SeedValue, SeedHeavy, SeedWeak>>), << <<"c", "b", 800>> >>),
      LinkAll(AddAll(EmptyGraph, SeedIds, <<SeedFaint, SeedNursed, SeedZero>>), << <<"a", "b", 800>>, <<"b", "c", 600>> >>),
      GardenGraph }

\* <<id, concept>> for add_concept, <<from, to, strength>> for link_concepts
EraConcepts == { <<"d", SeedZero>>, <<"a", SeedGlobal>> }
EraLinks == { <<"a", "c", 700>>, <<"a", "z", 500>>, <<"c", "a", 1500>> }
EraNames == {"renaissance"}

\* concept specifications a caller passes to create_concept_from_dict
DictLoud == "name" :> "loud" @@ "weight" :> 1500 @@ "valence" :> (0 - 2000)
DictPlain == "name" :> "plain" @@ "depth" :> 1000
DictThin == "name" :> "thin" @@ "weight" :> 300 @@ "depth" :> (0 - 500) @@ "is_incubating" :> TRUE
EraDicts == {DictLoud, DictPlain, DictThin}

EraInit ==
    /\ graph \in EraGraphs
    /\ shared_grounding = 900
    /\ violation_history = << >>
    /\ awareness = InitialAwareness
    /\ interaction_history = << >>
    /\ shell = GlobalState
    /\ decision_history = << >>
    /\ uuids = 0
    /\ call = [op |-> "init"]
    /\ steps = 0

AddConcept(id, concept) ==
    /\ steps < MaxSteps
    /\ graph' = add_concept(graph, id, concept)
    /\ call' = [op |-> "add_concept", before |-> graph, concept_id |-> id, ret |-> id]
    /\ steps' = steps + 1
    /\ UNCHANGED <<shell, decision_history, shared_grounding, violation_history, awareness, interaction_history, uuids>>

RemoveConcept(id) ==
    /\ steps < MaxSteps
    /\ graph' = remove_concept(graph, id)
    /\ call' = [op |-> "remove_concept", before |-> graph, concept_id |-> id]
    /\ steps' = steps + 1
    /\ UNCHANGED <<shell, decision_history, shared_grounding, violation_history, awareness, interaction_history, uuids>>

LinkConcepts(a, b, strength) ==
    /\ steps < MaxSteps
    /\ graph' = link_concepts(graph, a, b, strength, "generic")
    /\ call' = [op |-> "link_concepts", before |-> graph, concept_a_id |-> a, concept_b_id |-> b]
    /\ steps' = steps + 1
    /\ UNCHANGED <<shell, decision_history, shared_grounding, violation_history, awareness, interaction_history, uuids>>

\* add_concept(create_concept_from_dict(data))
Ingest(data) ==
    /\ steps < MaxSteps
    /\ graph' = add_concept(graph, FreshId(uuids + 1), create_concept_from_dict(data))
    /\ uuids' = uuids + 1
    /\ call' = [op |-> "ingest", before |-> graph, data |-> data, ret |-> FreshId(uuids + 1)]
    /\ steps' = steps + 1
    /\ UNCHANGED <<shell, decision_history, shared_grounding, violation_history, awareness, interaction_history>>

EvolveEra(new_era_name) ==
    /\ steps < MaxSteps
    /\ graph' = evolve_era(graph, new_era_name)
    /\ call' = [op |-> "evolve_era", before |-> graph, new_era_name |-> new_era_name]
    /\ steps' = steps + 1
    /\ UNCHANGED <<shell, decision_history, shared_grounding, violation_history, awareness, interaction_history, uuids>>

EraNext ==
    \/ \E c \in EraConcepts : AddConcept(c[1], c[2])
    \/ \E data \in EraDicts : Ingest(data)
    \/ \E id \in {"b", "z"} : RemoveConcept(id)
    \/ \E l \in EraLinks : LinkConcepts(l[1], l[2], l[3])
    \/ \E new_era_name \in EraNames : EvolveEra(new_era_name)
    \/ \E rate \in {500, DefaultDecayRate} : DecayAll(rate)
    \/ SpreadingActivation({"a"}, InitialActivation, DecayFactor, MaxHops)
    \/ FindDualities(graph.keys, DefaultMinOpposition)

SpecEra == EraInit /\ [][EraNext]_vars

\* C20: apart from remove_concept, a concept leaves the graph only in a
\* decay_all pass in which it got standard decay (no protection rule applied)
\* and its weight fell below 0.12; an era transition never removes a concept
\* of a foundational type, an incubating concept or a concept of weight >= 0.12.
C20_LeavesOnlyByForgetting ==
    call.op # "init" =>
        \A id \in Ids(call.before) \ Ids(graph) :
            LET c == call.before.at[id]
            IN  /\ \/ call.op = "remove_concept" /\ call.concept_id = id
                   \/ call.op = "decay_all" /\ Fading(call.before, c) /\ Faded(c, call.rate) < 120
                /\ call.op = "evolve_era" => ~Foundational(c) /\ ~c.is_incubating /\ c.weight < 120

\* C21: after any sequence of add_concept, link_concepts, remove_concept,
\* decay_all and evolve_era, every link target in the adjacency of every
\* concept of the graph is the id of a concept that is in the graph.
C21_NoDanglingLinks ==
    /\ \A id \in Ids(graph) : DOMAIN graph.at[id].links \subseteq Ids(graph)
    /\ \A e \in graph.edges : e[1] \in Ids(graph) /\ e[2] \in Ids(graph)

\* C22: after ingesting a concept from a caller's specification, after
\* spreading_activation, after decay_all and after link_concepts, with any
\* arguments, every concept of the graph has activation, weight and depth in
\* [0, 1] and valence in [-1, 1], and every link strength is in [0, 1].
C22_ScalarsInRange ==
    \A id \in Ids(graph) :
        /\ InUnit(graph.at[id].activation)
        /\ InUnit(graph.at[id].weight)
        /\ InUnit(graph.at[id].depth)
        /\ 0 - Scale <= graph.at[id].valence /\ graph.at[id].valence <= Scale
        /\ \A t \in DOMAIN graph.at[id].links : InUnit(graph.at[id].links[t].strength)

\* the concepts of g that are flagged incubating or have at least 2 outgoing links
Protected(g) ==
    {id \in Ids(g) : g.at[id].is_incubating \/ Cardinality(DOMAIN g.at[id].links) >= 2}

\* a pass of decay_all at a rate >= 0.4 removes no protected concept and
\* leaves the weight of one that had reached 0.3 at 0.12 or more
C28_DecayKeepsProtected ==
    (call.op = "decay_all" /\ call.rate >= 400) =>
        \A id \in Protected(call.before) :
            /\ id \in Ids(graph)
            /\ call.before.at[id].weight >= 300 => graph.at[id].weight >= 120

\* no graph operation clears the incubating flag of a stored concept
C28_FlagKept ==
    call.op # "init" =>
        \A id \in Ids(call.before) \cap Ids(graph) :
            call.before.at[id].is_incubating => graph.at[id].is_incubating

\* C28: at a decay rate >= 0.4 a concept that is flagged incubating or has
\* at least 2 outgoing links is never removed by decay_all, whatever its
\* weight is; its weight does not drop below 0.12 through decay once it has
\* reached 0.3; and the incubating flag, once set, is never cleared by any
\* graph operation.
C28_IncubationNeverExpires == C28_DecayKeepsProtected /\ C28_FlagKept

\* C29: add_concept with a concept whose id is already present in the graph
\* leaves the previously stored concept in place, with its weight, depth,
\* properties and outgoing links unchanged.
C29_StoredConceptKept ==
    (call.op = "add_concept" /\ call.concept_id \in Ids(call.before)) =>
        LET stored == call.before.at[call.concept_id]
            now == graph.at[call.concept_id]
        IN  /\ now.name = stored.name
            /\ now.weight = stored.weight
            /\ now.depth = stored.depth
            /\ now.properties = stored.properties
            /\ now.links = stored.links

-----------------------------------------------------------------------------
(* The engine's dispatch: synthesize and process on two poles of a given    *)
(* category, in both orders                                                  *)

\* <<name of p, name of q, their category>>
SynthNames ==
    { <<"GLOBAL", "LOCAL", "cognitive">>, <<"LOCAL", "GLOBAL", "cognitive">>,
      <<"ANALYTICAL", "INTUITIVE", "cognitive">>, <<"INTUITIVE", "ANALYTICAL", "cognitive">>,
      <<"LOVE", "HATE", "emotional">>, <<"HATE", "LOVE", "emotional">>,
      <<"FEAR", "CALM", "emotional">>, <<"CALM", "FEAR", "emotional">>,
      <<"UNIVERSAL", "CONTEXTUAL", "moral">>, <<"CONTEXTUAL", "UNIVERSAL", "moral">>,
      <<"ALTRUISTIC", "EGOISTIC", "moral">>, <<"EGOISTIC", "ALTRUISTIC", "moral">>,
      <<"FAST", "SLOW", "cognitive">>, <<"SADNESS", "JOY", "emotional">>,
      <<"TRUTH", "LOYALTY", "moral">>, <<"HOT", "COLD", "physical">>, <<"GLOBAL", "LOCAL", "spatial">> }

\* <<weight of p, weight of q>>
SynthWeights == { <<500, 500>>, <<300, 800>> }

SynthGraphs ==
    { AddAll(EmptyGraph, <<"p", "q">>,
             << Concept(n[1], E1, NoProperties, 900, w[1], 500, 0, FALSE, n[3]),
                Concept(n[2], NegE1, NoProperties, 900, w[2], 500, 0, FALSE, n[3]) >>) :
        n \in SynthNames, w \in SynthWeights }

SynthInit ==
    /\ graph \in SynthGraphs
    /\ shared_grounding = 900
    /\ violation_history = << >>
    /\ awareness = InitialAwareness
    /\ interaction_history = << >>
    /\ shell = GlobalState
    /\ decision_history = << >>
    /\ uuids = 0
    /\ call = [op |-> "init"]
    /\ steps = 0

\* dual_engine.synthesize(duality, context) on the duality find_dualities
\* builds for the poles ida, idb
Synthesize(ida, idb, context) ==
    /\ steps < MaxSteps
    /\ call' = [op |-> "synthesize", before |-> graph, duality |-> DualityPair(graph, ida, idb), context |-> context,
                synthesis |-> synthesize(graph, DualityPair(graph, ida, idb), context, FreshId(uuids + 1))]
    /\ uuids' = uuids + 1
    /\ steps' = steps + 1
    /\ UNCHANGED <<shell, decision_history, graph, shared_grounding, violation_history, awareness, interaction_history>>

SynthNext ==
    \/ \E pair \in {<<"p", "q">>, <<"q", "p">>} : Synthesize(pair[1], pair[2], NoContext)
    \/ \E active_concepts \in {<<"p", "q">>, <<"q", "p">>} : EngineProcess(active_concepts, NoContext)

SpecSynth == SynthInit /\ [][SynthNext]_vars

\* the pairs with a hand-authored synthesis, per category
Authored ==
    [ cognitive |-> {{"GLOBAL", "LOCAL"}, {"ANALYTICAL", "INTUITIVE"}},
      emotional |-> {{"LOVE", "HATE"}, {"FEAR", "CALM"}},
      moral     |-> {{"UNIVERSAL", "CONTEXTUAL"}, {"ALTRUISTIC", "EGOISTIC"}} ]

Recognized(g, duality) ==
    /\ duality.category \in DOMAIN Authored
    /\ {g.at[duality.pole_a].name, g.at[duality.pole_b].name} \in Authored[duality.category]

\* C24: every unrecognized pair, of a category outside emotional, cognitive
\* and moral or unknown inside one of them, is synthesized by the generic
\* merge: the emergent concept is named "<A>_<B>_INTEGRATION", its weight is
\* the mean of the poles' weights, and the confidence is 0.5.
C24_GenericMerge ==
    (call.op = "synthesize" /\ ~Recognized(call.before, call.duality)) =>
        LET a == call.before.at[call.duality.pole_a]
            b == call.before.at[call.duality.pole_b]
        IN  /\ call.synthesis.new_concept.name = a.name \o "_" \o b.name \o "_INTEGRATION"
            /\ call.synthesis.new_concept.weight = (a.weight + b.weight) \div 2
            /\ call.synthesis.confidence = 500

\* C25: for every known pair in its category, synthesize gives the same
\* hand-authored emergent concept name, weight and confidence whether the
\* duality is (A, B) or (B, A).
C25_OrderInsensitive ==
    (call.op = "synthesize" /\ Recognized(call.before, call.duality)) =>
        LET swapped == synthesize(call.before, DualityPair(call.before, call.duality.pole_b, call.duality.pole_a),
                                  call.context, call.synthesis.new_id)
        IN  /\ call.synthesis.new_concept.name \in
                    {"HIERARCHICAL_REASONING", "INTEGRATED_THINKING", "AMBIVALENCE", "COURAGE",
                     "CONTEXTUAL_ETHICS", "ENLIGHTENED_SELF_INTEREST"}
            /\ swapped.new_concept.name = call.synthesis.new_concept.name
            /\ swapped.new_concept.weight = call.synthesis.new_concept.weight
            /\ swapped.confidence = call.synthesis.confidence

-----------------------------------------------------------------------------
(* The meta-controller: allocate_attention on active sets of up to eight    *)
(* concepts, under awareness states around the two thresholds               *)

\* <<activation, weight, depth>> of the concepts c1 .. c8
AttentionScalars ==
    << <<300, 900, 1000>>, <<950, 100, 0>>, <<400, 800, 900>>, <<900, 200, 100>>,
       <<500, 500, 500>>, <<850, 300, 200>>, <<600, 700, 800>>, <<800, 500, 400>> >>

AttentionIds == <<"c1", "c2", "c3", "c4", "c5", "c6", "c7", "c8">>

\* the graph with the concepts c1 .. c8; the last emerged from a synthesis
AttentionGraph ==
    AddAll(EmptyGraph, AttentionIds,
           [i \in 1..8 |->
               [ Concept("C" \o NatStr(i), NoEmbedding, NoProperties, AttentionScalars[i][1],
                         AttentionScalars[i][2], AttentionScalars[i][3], 0, FALSE, NoCategory)
                 EXCEPT !.is_emergent = (i = 8) ]])

\* <<friction, vitality>> of the awareness state
Moods == { <<0, 500>>, <<800, 900>>, <<700, 800>>, <<700, 700>>, <<710, 0>> }

\* <<active_concepts, context, whether the awareness state is passed>>
AttentionCalls ==
    { << << >>, NoContext, TRUE >>,
      << AttentionIds, NoContext, TRUE >>,
      << AttentionIds, "An URGENT request", TRUE >>,
      << AttentionIds, "routine check", FALSE >>,
      << Reverse(AttentionIds), NoContext, TRUE >>,
      << SubSeq(AttentionIds, 1, 4), "routine check", TRUE >>,
      << SubSeq(AttentionIds, 1, 4), NoContext, FALSE >>,
      << <<"c5", "c1">>, "This is critical", TRUE >> }

AttentionInit ==
    /\ graph = AttentionGraph
    /\ \E mood \in Moods : awareness = [InitialAwareness EXCEPT !.friction = mood[1], !.vitality = mood[2]]
    /\ shared_grounding = 900
    /\ violation_history = << >>
    /\ interaction_history = << >>
    /\ shell = GlobalState
    /\ decision_history = << >>
    /\ uuids = 0
    /\ call = [op |-> "init"]
    /\ steps = 0

\* meta_controller.allocate_attention(active_concepts, context, awareness_state)
AllocateAttention(active_concepts, context, awareness_state) ==
    /\ steps < MaxSteps
    /\ call' = [op |-> "allocate_attention", active_concepts |-> active_concepts, context |-> context,
                awareness_state |-> awareness_state,
                ret |-> allocate_attention(graph, active_concepts, context, awareness_state)]
    /\ decision_history' =
            IF Len(active_concepts) = 0 THEN decision_history
            ELSE Append(decision_history,
                        Decision(allocate_attention(graph, active_concepts, context, awareness_state),
                                 context, active_concepts))
    /\ steps' = steps + 1
    /\ UNCHANGED <<shell, graph, shared_grounding, violation_history, awareness, interaction_history, uuids>>

AttentionNext ==
    \E c \in AttentionCalls : AllocateAttention(c[1], c[2], IF c[3] THEN awareness ELSE NoState)

SpecAttention == AttentionInit /\ [][AttentionNext]_vars

\* the ids of s placed before id when s is sorted by key, descending, stably
Ahead(s, key, id) ==
    {x \in SeqToSet(s) : key[x] > key[id] \/ (key[x] = key[id] /\ \E i, j \in 1..Len(s) : i < j /\ s[i] = x /\ s[j] = id)}

\* the n first of s sorted by key, descending, as a set
Top(s, key, n) == {id \in SeqToSet(s) : Cardinality(Ahead(s, key, id)) < n}

\* C26: for a non-empty active set allocate_attention picks one of three
\* regimes, tested in order: friction > 0.7 gives local/deep with the (at
\* most) 3 concepts of highest depth + weight; otherwise vitality > 0.7 gives
\* global/shallow with the 7 of highest activation; otherwise balanced/medium
\* with the 5 of highest activation (vitality 0.5, friction 0 without an
\* awareness state). The focus is a subset of the active set and the urgency
\* is in [0, 1]; for an empty active set the focus is empty and the urgency 0.
C26_AttentionRegimes ==
    call.op = "allocate_attention" =>
        LET active == call.active_concepts
            friction == IF call.awareness_state = NoState THEN 0 ELSE call.awareness_state.friction
            vitality == IF call.awareness_state = NoState THEN 500 ELSE call.awareness_state.vitality
            stability == [id \in SeqToSet(active) |-> graph.at[id].depth + graph.at[id].weight]
            activation == [id \in SeqToSet(active) |-> graph.at[id].activation]
            focus == SeqToSet(call.ret.focus_concepts)
        IN  /\ focus \subseteq SeqToSet(active)
            /\ Len(call.ret.focus_concepts) = Cardinality(focus)
            /\ InUnit(call.ret.urgency)
            /\ active = << >> => focus = {} /\ call.ret.urgency = 0
            /\ (active # << >> /\ friction > 700) =>
                    /\ call.ret.attention_mode = "local" /\ call.ret.processing_depth = "deep"
                    /\ focus = Top(active, stability, 3)
            /\ (active # << >> /\ friction <= 700 /\ vitality > 700) =>
                    /\ call.ret.attention_mode = "global" /\ call.ret.processing_depth = "shallow"
                    /\ focus = Top(active, activation, 7)
            /\ (active # << >> /\ friction <= 700 /\ vitality <= 700) =>
                    /\ call.ret.attention_mode = "balanced" /\ call.ret.processing_depth = "medium"
                    /\ focus = Top(active, activation, 5)

\* eight active concepts under friction 0.8 and vitality 0.9: the first
\* regime wins and the focus is the three most stable concepts
C26_Witness ==
    /\ call.op = "allocate_attention"
    /\ call.active_concepts = AttentionIds
    /\ call.awareness_state # NoState
    /\ call.awareness_state.friction = 800 /\ call.awareness_state.vitality = 900
    /\ call.ret.attention_mode = "local"
    /\ call.ret.focus_concepts = <<"c1", "c3", "c7">>
    /\ Len(decision_history) = 2

====
